---- MODULE Spec2Model ----
(***************************************************************************)
(* texplore: the terminal file explorer of ws-tools                        *)
(* (texplore/src/main.rs).  The model covers the tree model (build_node,   *)
(* load_children, expand_path), the visible-list flattener                 *)
(* (collect_visible, make_prefix), and the interaction controller (the     *)
(* event loop of main, handle_key, handle_mouse, handle_viewer_key,        *)
(* resync, the delete flow and the viewer).                                *)
(*                                                                         *)
(* Strings of the program are sequences of character codes, paths are      *)
(* sequences of file names, Option<T> is a sequence of length 0 (None) or  *)
(* 1 (Some).                                                               *)
(***************************************************************************)
EXTENDS Integers, Sequences, FiniteSets, TLC

VARIABLES
    app,          \* the App of main: root, git_status, visible, focus, scroll,
                  \* status, pending_delete, viewer, last_click
    disk,         \* the file system: the set of paths that exist
    unreadable,   \* directories whose fs::read_dir fails
    term_height,  \* rows of the terminal (crossterm::terminal::size().1)
    has_focus,    \* has_focus of main
    elapsed,      \* last_refresh.elapsed(), in seconds
    event,        \* the event this iteration of the loop took from event::read()
    trash_call,   \* the trash::delete call this iteration made, if any
    bat_call,     \* the run of the pretty-printer this iteration made, if any
    git_call,     \* what the tools answered when the tree was built, if it was
    term_width,   \* columns of the terminal (tree_area.width)
    no_color,     \* NO_COLOR is set in the environment
    tree_widget,  \* the lines render_tree drew in this iteration, if it did
    pc,           \* position in the loop of main
    lock_files,   \* ws: the lock file of each tmux session, if there is one
    toggles       \* ws: the processes running toggle_layout

vars == <<app, disk, unreadable, term_height, has_focus, elapsed, event,
          trash_call, bat_call, git_call, term_width, no_color, tree_widget,
          pc, lock_files, toggles>>

\* the variables of texplore
texplore_vars ==
    <<app, disk, unreadable, term_height, has_focus, elapsed, event,
      trash_call, bat_call, git_call, term_width, no_color, tree_widget, pc>>

-----------------------------------------------------------------------------
(* Option<T> *)

None == <<>>

Some(x) == <<x>>

IsSome(o) == Len(o) = 1

Unwrap(o) == o[1]

Min(a, b) == IF a <= b THEN a ELSE b

Max(a, b) == IF a >= b THEN a ELSE b

\* usize::saturating_sub
saturating_sub(a, b) == IF a >= b THEN a - b ELSE 0

-----------------------------------------------------------------------------
(* The explored directory.  File names are strings of character codes.     *)

Name_r == <<114>>

Name_a == <<97>>

Name_b == <<98>>

Name_c == <<99>>

Name_B == <<66>>

\* app.root_path
RootPath == <<Name_r>>

\* every path that may exist under the explored root
AllPaths ==
    { RootPath,
      RootPath \o <<Name_a>>,
      RootPath \o <<Name_a, Name_b>>,
      RootPath \o <<Name_a, Name_b, Name_c>>,
      RootPath \o <<Name_B>> }

\* the paths that are directories when they exist
DirPaths ==
    { RootPath, RootPath \o <<Name_a>>, RootPath \o <<Name_a, Name_b>> }

FilePaths == AllPaths \ DirPaths

\* Path::parent
parent(path) == SubSeq(path, 1, Len(path) - 1)

\* Path::file_name
file_name(path) == path[Len(path)]

\* Path::starts_with
starts_with(path, base) ==
    /\ Len(base) <= Len(path)
    /\ SubSeq(path, 1, Len(base)) = base

\* Path::strip_prefix (of a path that starts with base)
strip_prefix(path, base) == SubSeq(path, Len(base) + 1, Len(path))

\* a set of existing paths is closed under parent and holds the root
IsDisk(d) ==
    /\ RootPath \in d
    /\ \A p \in d : p = RootPath \/ parent(p) \in d

-----------------------------------------------------------------------------
(* Status codes: the two letters of a porcelain record.                    *)

BlankStatus == <<32, 32>>

Modified == <<32, 77>>

Untracked == <<63, 63>>

\* status.trim().is_empty()
trim_is_empty(st) == \A i \in 1..Len(st) : st[i] = 32

\* char::to_ascii_lowercase / str::to_ascii_lowercase
lower_char(c) == IF c >= 65 /\ c <= 90 THEN c + 32 ELSE c

to_ascii_lowercase(s) == [i \in 1..Len(s) |-> lower_char(s[i])]

\* String::cmp: lexicographic order of the codes
RECURSIVE str_less(_, _)
str_less(s, t) ==
    IF t = <<>> THEN FALSE
    ELSE IF s = <<>> THEN TRUE
    ELSE IF Head(s) # Head(t) THEN Head(s) < Head(t)
    ELSE str_less(Tail(s), Tail(t))

sort_key(path) == to_ascii_lowercase(file_name(path))

display_name(path, is_dir) ==
    IF is_dir /\ file_name(path)[Len(file_name(path))] # 47
    THEN file_name(path) \o <<47>>
    ELSE file_name(path)

-----------------------------------------------------------------------------
(* Strings: a string is the sequence of its character codes.               *)

LF == 10

CR == 13

\* str::split(sep): the pieces between the separators, empty ones included
RECURSIVE split(_, _, _)
split(s, sep, cur) ==
    IF s = <<>> THEN <<cur>>
    ELSE IF Head(s) = sep THEN <<cur>> \o split(Tail(s), sep, <<>>)
    ELSE split(Tail(s), sep, Append(cur, Head(s)))

\* a line without the \r before its \n
strip_cr(line) ==
    IF line # <<>> /\ line[Len(line)] = CR
    THEN SubSeq(line, 1, Len(line) - 1) ELSE line

\* str::lines(): split at \n, a final empty line is not a line
RECURSIVE str_lines(_, _)
str_lines(text, cur) ==
    IF text = <<>> THEN IF cur = <<>> THEN <<>> ELSE <<cur>>
    ELSE IF Head(text) = LF
    THEN <<strip_cr(cur)>> \o str_lines(Tail(text), <<>>)
    ELSE str_lines(Tail(text), Append(cur, Head(text)))

\* str::trim_start_matches / trim_end_matches with a set of characters
RECURSIVE trim_start_matches(_, _)
trim_start_matches(s, cs) ==
    IF s # <<>> /\ Head(s) \in cs THEN trim_start_matches(Tail(s), cs) ELSE s

RECURSIVE trim_end_matches(_, _)
trim_end_matches(s, cs) ==
    IF s # <<>> /\ s[Len(s)] \in cs
    THEN trim_end_matches(SubSeq(s, 1, Len(s) - 1), cs) ELSE s

\* str::trim: white space off both ends
trim(s) == trim_end_matches(trim_start_matches(s, {32, 9, LF, CR}),
                            {32, 9, LF, CR})

\* str::strip_prefix
str_strip_prefix(s, prefix) ==
    IF Len(prefix) <= Len(s) /\ SubSeq(s, 1, Len(prefix)) = prefix
    THEN Some(SubSeq(s, Len(prefix) + 1, Len(s))) ELSE None

\* str::find(char): the index of the first occurrence, counted from 0
find(s, c) ==
    IF \E i \in 1..Len(s) : s[i] = c
    THEN Some((CHOOSE i \in 1..Len(s) :
                  s[i] = c /\ \A j \in 1..(i - 1) : s[j] # c) - 1)
    ELSE None

RECURSIVE usize_value(_, _)
usize_value(s, acc) ==
    IF s = <<>> THEN Some(acc)
    ELSE IF Head(s) \notin 48..57 THEN None
    ELSE usize_value(Tail(s), acc * 10 + (Head(s) - 48))

\* str::parse::<usize>(): decimal digits after an optional +
parse_usize(part) ==
    IF part = <<>> THEN None
    ELSE IF Head(part) = 43
    THEN IF Tail(part) = <<>> THEN None ELSE usize_value(Tail(part), 0)
    ELSE usize_value(part, 0)

\* the decimal digits of a number
RECURSIVE to_digits(_)
to_digits(n) ==
    IF n < 10 THEN <<48 + n>>
    ELSE to_digits(n \div 10) \o <<48 + (n % 10)>>

-----------------------------------------------------------------------------
(* The version-control adapter.  A run holds what the tools answer when    *)
(* the tree is built: toplevel, the path `git rev-parse --show-toplevel`   *)
(* prints; porcelain, the bytes of `git status --porcelain -z`; sb, the    *)
(* text of `git status -sb`, each None when the tool fails; compiles,      *)
(* whether the matcher of the ignore file builds.                          *)

NUL == 0

Slash == 47

Hash == 35

\* a path as the status query prints it: the names with / between them
RECURSIVE path_bytes(_)
path_bytes(path) ==
    IF path = <<>> THEN <<>>
    ELSE IF Len(path) = 1 THEN Head(path)
    ELSE Head(path) \o <<Slash>> \o path_bytes(Tail(path))

\* the components of a relative path
components(rel) == SelectSeq(split(rel, Slash, <<>>), LAMBDA n : n # <<>>)

\* Path::join with a relative path
join(base, rel) == base \o components(rel)

\* the index read_c_string stops at: the next NUL or the end
RECURSIVE c_string_end(_, _)
c_string_end(bytes, idx) ==
    IF idx < Len(bytes) /\ bytes[idx + 1] # NUL
    THEN c_string_end(bytes, idx + 1) ELSE idx

\* read_c_string: the path read and *idx behind its NUL
read_c_string(bytes, idx) ==
    [ path |-> SubSeq(bytes, idx + 1, c_string_end(bytes, idx)),
      idx |-> IF c_string_end(bytes, idx) < Len(bytes)
              THEN c_string_end(bytes, idx) + 1
              ELSE c_string_end(bytes, idx) ]

format_status(x, y) == IF x = 63 /\ y = 63 THEN <<63, 63>> ELSE <<x, y>>

\* HashMap::insert
insert(map, key, value) ==
    [k \in DOMAIN map \cup {key} |-> IF k = key THEN value ELSE map[k]]

ZeroCounts == [staged |-> 0, unstaged |-> 0, untracked |-> 0]

\* the tallies after a record with the codes x and y
tally(counts, x, y) ==
    IF x = 63 /\ y = 63
    THEN [counts EXCEPT !.untracked = @ + 1]
    ELSE [counts EXCEPT !.staged = IF x # 32 THEN @ + 1 ELSE @,
                        !.unstaged = IF y # 32 THEN @ + 1 ELSE @]

\* a rename or copy record: a second path follows the first
has_two_paths(x, y) == x = 82 \/ x = 67 \/ y = 82 \/ y = 67

\* the path a record is entered under: the second one when there is one
record_path(bytes, x, y, path1) ==
    IF has_two_paths(x, y) /\ read_c_string(bytes, path1.idx).path # <<>>
    THEN read_c_string(bytes, path1.idx).path
    ELSE path1.path

\* idx behind a record
record_end(bytes, x, y, path1) ==
    IF has_two_paths(x, y) THEN read_c_string(bytes, path1.idx).idx
    ELSE path1.idx

\* the body of the loop with the tallies kept for the explored root only
enter_record_inside_root(parsed, abs, x, y, root) ==
    IF starts_with(abs, root)
    THEN [ map |-> insert(parsed.map, abs, format_status(x, y)),
           counts |-> tally(parsed.counts, x, y) ]
    ELSE parsed

\* the body of the while loop of load_git_status behind the first path
enter_record(parsed, abs, x, y, root) ==
    [ map |-> IF starts_with(abs, root)
              THEN insert(parsed.map, abs, format_status(x, y))
              ELSE parsed.map,
      counts |-> tally(parsed.counts, x, y) ]

\* the while loop of load_git_status: [map, counts]
RECURSIVE status_loop(_, _, _, _, _)
status_loop(bytes, idx, root, git_root, parsed) ==
    IF idx + 3 > Len(bytes) THEN parsed
    ELSE LET x == bytes[idx + 1]
             y == bytes[idx + 2]
             path1 == read_c_string(
                        bytes, IF bytes[idx + 3] = 32 THEN idx + 3 ELSE idx + 2)
         IN  IF path1.path = <<>>
             THEN status_loop(bytes, path1.idx, root, git_root, parsed)
             ELSE status_loop(
                    bytes, record_end(bytes, x, y, path1), root, git_root,
                    enter_record(
                      parsed, join(git_root, record_path(bytes, x, y, path1)),
                      x, y, root))

AheadPrefix == <<97, 104, 101, 97, 100, 32>>

BehindPrefix == <<98, 101, 104, 105, 110, 100, 32>>

\* the for loop of git_ahead_behind over the parts between [ and ]
RECURSIVE ahead_behind_loop(_, _)
ahead_behind_loop(parts, found) ==
    IF parts = <<>> THEN found
    ELSE LET part == trim(Head(parts))
             ahead == str_strip_prefix(part, AheadPrefix)
             behind == str_strip_prefix(part, BehindPrefix)
             value(v) == IF IsSome(parse_usize(v))
                         THEN Unwrap(parse_usize(v)) ELSE 0
         IN  ahead_behind_loop(
               Tail(parts),
               IF IsSome(ahead)
               THEN [found EXCEPT !.ahead = value(Unwrap(ahead))]
               ELSE IF IsSome(behind)
               THEN [found EXCEPT !.behind = value(Unwrap(behind))]
               ELSE found)

\* git_ahead_behind: (ahead, behind) read from the first line of the text
git_ahead_behind(sb) ==
    IF sb = None THEN [ahead |-> 0, behind |-> 0]
    ELSE LET ls == str_lines(Unwrap(sb), <<>>)
             first == IF ls = <<>> THEN <<>> ELSE Head(ls)
             start == find(first, 91)
             rest == SubSeq(first, Unwrap(start) + 2, Len(first))
             end == find(rest, 93)
         IN  IF start = None \/ end = None THEN [ahead |-> 0, behind |-> 0]
             ELSE ahead_behind_loop(
                    split(SubSeq(rest, 1, Unwrap(end)), 44, <<>>),
                    [ahead |-> 0, behind |-> 0])

\* the index load_git_status returns when a tool fails
EmptyGitStatus ==
    [map |-> <<>>, counts |-> ZeroCounts, ahead |-> 0, behind |-> 0]

\* load_git_status that takes the explored root for the top level when the
\* top level is not found
load_git_status_without_toplevel(root, run) ==
    IF run.porcelain = None THEN EmptyGitStatus
    ELSE LET parsed == status_loop(Unwrap(run.porcelain), 0, root,
                                   IF run.toplevel = None THEN <<>>
                                   ELSE Unwrap(run.toplevel),
                                   [map |-> <<>>, counts |-> ZeroCounts])
             ab == git_ahead_behind(run.sb)
         IN  [map |-> parsed.map, counts |-> parsed.counts,
              ahead |-> ab.ahead, behind |-> ab.behind]

load_git_status(root, run) ==
    IF run.toplevel = None THEN EmptyGitStatus
    ELSE IF run.porcelain = None THEN EmptyGitStatus
    ELSE LET parsed == status_loop(Unwrap(run.porcelain), 0, root,
                                   Unwrap(run.toplevel),
                                   [map |-> <<>>, counts |-> ZeroCounts])
             ab == git_ahead_behind(run.sb)
         IN  [map |-> parsed.map, counts |-> parsed.counts,
              ahead |-> ab.ahead, behind |-> ab.behind]

-----------------------------------------------------------------------------
(* Ignore files.  An ignore file is the file .gitignore of a directory; a  *)
(* matcher is [root, patterns], the plain names of the root-level file.    *)

DotGitignore == <<46, 103, 105, 116, 105, 103, 110, 111, 114, 101>>

\* Path::is_file
is_file(path, d) == path \in d /\ path \notin DirPaths

\* fs::read_to_string of the ignore file of a directory: the one of the
\* explored root names B, the one of r/a has a comment and the line /b/
read_to_string(path) ==
    IF path = RootPath \o <<DotGitignore>> THEN <<66, LF>>
    ELSE IF path = RootPath \o <<Name_a, DotGitignore>>
    THEN <<Hash, 32, 99, LF, Slash, 98, Slash, LF>>
    ELSE <<>>

\* the lines of an ignore file that are patterns
pattern_lines(text) ==
    SelectSeq(str_lines(text, <<>>),
              LAMBDA line : trim(line) # <<>> /\ Head(trim(line)) # Hash)

\* build_gitignore: the matcher of the root-level ignore file, None when
\* the repository is not found or the matcher does not build
build_gitignore(root, run, d) ==
    IF run.toplevel = None THEN None
    ELSE IF ~run.compiles THEN None
    ELSE Some([ root |-> Unwrap(run.toplevel),
                patterns |->
                  IF is_file(Unwrap(run.toplevel) \o <<DotGitignore>>, d)
                  THEN pattern_lines(read_to_string(
                         Unwrap(run.toplevel) \o <<DotGitignore>>))
                  ELSE <<>> ])

\* Gitignore::matched_path_or_any_parents(..).is_ignore() for plain names:
\* the path or a directory above it, below the matcher's root, has the name
matched_path_or_any_parents(ignore, path, is_dir) ==
    /\ starts_with(path, ignore.root)
    /\ \E i \in (Len(ignore.root) + 1)..Len(path) :
          \E k \in 1..Len(ignore.patterns) : path[i] = trim(ignore.patterns[k])

\* a line of the ignore file of `dir` is the name, slashes and blanks apart
names_file(dir, name, d) ==
    /\ is_file(dir \o <<DotGitignore>>, d)
    /\ \E k \in 1..Len(pattern_lines(read_to_string(dir \o <<DotGitignore>>))) :
          trim_end_matches(
            trim_start_matches(
              trim(pattern_lines(read_to_string(dir \o <<DotGitignore>>))[k]),
              {Slash}),
            {Slash}) = name

\* the walk of is_ignored up the directories above the path
RECURSIVE walk_up(_, _, _)
walk_up(path, depth, d) ==
    IF names_file(SubSeq(path, 1, depth), file_name(path), d) THEN TRUE
    ELSE IF depth = 0 THEN FALSE
    ELSE walk_up(path, depth - 1, d)

is_ignored(gitignore, path, is_dir, d) ==
    IF IsSome(gitignore)
       /\ matched_path_or_any_parents(Unwrap(gitignore), path, is_dir)
    THEN TRUE
    ELSE IF path = <<>> THEN FALSE
    ELSE walk_up(path, Len(path) - 1, d)

-----------------------------------------------------------------------------
(* Tree model *)

\* icon_key_for_suffix, the arms a one-letter name can meet
icon_key_for_suffix(suffix) ==
    CASE to_ascii_lowercase(suffix) \in {<<99>>, <<104>>} -> Some("c")
      [] to_ascii_lowercase(suffix) = <<114>> -> Some("r")
      [] to_ascii_lowercase(suffix) = <<118>> -> Some("v")
      [] OTHER -> None

\* icon_key_for of a name without extension that is no known stem
icon_key_for(path) ==
    IF IsSome(icon_key_for_suffix(file_name(path)))
    THEN Unwrap(icon_key_for_suffix(file_name(path)))
    ELSE "default"

\* icon_for_key, for the keys above
icon_for_key(key) ==
    CASE key = "directory" -> <<61563>>
      [] key = "c" -> <<58910>>
      [] key = "r" -> <<62045>>
      [] key = "v" -> <<61729>>
      [] OTHER -> <<61788>>

\* icon_for: (icon, icon_key); the disk holds directories and plain files
\* that are not executable
icon_for(path, is_dir) ==
    LET key == IF is_dir THEN "directory" ELSE icon_key_for(path)
    IN  [icon |-> icon_for_key(key), icon_key |-> key]

\* format_modified: "%Y-%m-%d %H:%M" of a modification time; every path of
\* the disk was last written at 2024-01-01 00:00
format_modified(path) ==
    << 50, 48, 50, 52, 45, 48, 49, 45, 48, 49, 32, 48, 48, 58, 48, 48 >>

build_node(path, gitignore, gs, d) ==
    LET is_dir == path \in DirPaths
        st == IF path \in DOMAIN gs.map THEN gs.map[path] ELSE BlankStatus
    IN  [ path |-> path,
          is_dir |-> is_dir,
          expanded |-> FALSE,
          children |-> None,
          icon |-> icon_for(path, is_dir).icon,
          icon_key |-> icon_for(path, is_dir).icon_key,
          status |-> st,
          modified |-> format_modified(path),
          subtree_changes |-> IF is_dir \/ trim_is_empty(st) THEN 0 ELSE 1,
          name |-> display_name(path, is_dir),
          ignored |-> is_ignored(gitignore, path, is_dir, d) ]

\* fs::read_dir: the entries of a directory, in the order the system gives
RECURSIVE set_to_seq(_)
set_to_seq(S) ==
    IF S = {} THEN <<>>
    ELSE LET x == CHOOSE y \in S : TRUE
         IN  <<x>> \o set_to_seq(S \ {x})

read_dir(path, d) == set_to_seq({ p \in d : p # RootPath /\ parent(p) = path })

\* slice::sort_by with the comparison of load_children (stable insertion)
RECURSIVE insert_sorted(_, _)
insert_sorted(node, sorted) ==
    IF sorted = <<>> THEN <<node>>
    ELSE IF str_less(sort_key(node.path), sort_key(Head(sorted).path))
         THEN <<node>> \o sorted
         ELSE <<Head(sorted)>> \o insert_sorted(node, Tail(sorted))

RECURSIVE sort_children(_)
sort_children(nodes) ==
    IF nodes = <<>> THEN <<>>
    ELSE insert_sorted(nodes[Len(nodes)],
                       sort_children(SubSeq(nodes, 1, Len(nodes) - 1)))

\* children.iter().map(|child| child.subtree_changes).sum()
RECURSIVE sum_changes(_)
sum_changes(children) ==
    IF children = <<>> THEN 0
    ELSE Head(children).subtree_changes + sum_changes(Tail(children))

\* io::Result<Node>: the node as the call leaves it, or an error
Ok(node) == [ok |-> TRUE, node |-> node]

Err(node) == [ok |-> FALSE, node |-> node]

\* load_children that pushes the new children behind the ones it has
load_children_appending(node, gitignore, gs, d, locked) ==
    IF ~node.is_dir THEN Ok(node)
    ELSE IF node.path \in locked \/ node.path \notin d THEN Err(node)
    ELSE LET listing == read_dir(node.path, d)
             built == [i \in 1..Len(listing) |->
                         build_node(listing[i], gitignore, gs, d)]
             prior == IF IsSome(node.children) THEN Unwrap(node.children)
                      ELSE <<>>
             children == prior \o sort_children(built)
         IN  Ok([node EXCEPT !.children = Some(children),
                             !.subtree_changes = sum_changes(children)])

\* node.children = Some(children) and the sum over them
with_children(node, children) ==
    [node EXCEPT !.children = Some(children),
                 !.subtree_changes = sum_changes(children)]

\* build_node of every entry of a listing
build_nodes(listing, gitignore, gs, d) ==
    [i \in 1..Len(listing) |-> build_node(listing[i], gitignore, gs, d)]

load_children(node, gitignore, gs, d, locked) ==
    IF ~node.is_dir THEN Ok(node)
    ELSE IF node.path \in locked \/ node.path \notin d THEN Err(node)
    ELSE Ok(with_children(node,
                sort_children(build_nodes(read_dir(node.path, d),
                                          gitignore, gs, d))))

\* children.iter_mut().find(|child| child.path.file_name() == Some(first))
find_child(children, first) ==
    LET hits == { i \in 1..Len(children) : file_name(children[i].path) = first }
    IN  IF hits = {} THEN 0 ELSE CHOOSE i \in hits : \A j \in hits : i <= j

\* expand_path that loads the directories on the way but leaves them collapsed
RECURSIVE expand_path_leaves_collapsed(_, _, _, _, _, _)
expand_path_leaves_collapsed(node, rel_path, gitignore, gs, d, locked) ==
    IF rel_path = <<>> THEN Ok(node)
    ELSE IF ~node.is_dir THEN Ok(node)
    ELSE LET loaded == IF node.children = None
                       THEN load_children(node, gitignore, gs, d, locked)
                       ELSE Ok(node)
         IN  IF ~loaded.ok THEN loaded
             ELSE LET children == Unwrap(loaded.node.children)
                      i == find_child(children, Head(rel_path))
                  IN  IF i = 0 THEN loaded
                      ELSE LET sub == expand_path_leaves_collapsed(
                                        children[i], Tail(rel_path),
                                        gitignore, gs, d, locked)
                               kept == [loaded.node EXCEPT !.children =
                                          Some([children EXCEPT ![i] = sub.node])]
                           IN  IF sub.ok THEN Ok(kept) ELSE Err(kept)

RECURSIVE expand_path(_, _, _, _, _, _)

\* the child the walk went into is put back; its error is passed on
expand_path_keep(node, i, sub) ==
    LET kept == [node EXCEPT !.children =
                    Some([Unwrap(node.children) EXCEPT ![i] = sub.node])]
    IN  IF sub.ok THEN Ok(kept) ELSE Err(kept)

\* expand_path behind the load: the walk goes on in the child named by the
\* first component, if there is one
expand_path_loaded(loaded, i, rel_path, gitignore, gs, d, locked) ==
    IF ~loaded.ok THEN loaded
    ELSE IF i = 0 THEN loaded
    ELSE expand_path_keep(loaded.node, i,
            expand_path(Unwrap(loaded.node.children)[i], Tail(rel_path),
                        gitignore, gs, d, locked))

\* expand_path on a directory that is marked expanded
expand_path_opened(loaded, rel_path, gitignore, gs, d, locked) ==
    expand_path_loaded(
        loaded,
        IF loaded.ok
        THEN find_child(Unwrap(loaded.node.children), Head(rel_path)) ELSE 0,
        rel_path, gitignore, gs, d, locked)

expand_path(node, rel_path, gitignore, gs, d, locked) ==
    IF rel_path = <<>> THEN Ok(node)
    ELSE IF ~node.is_dir THEN Ok(node)
    ELSE expand_path_opened(
            IF node.children = None
            THEN load_children([node EXCEPT !.expanded = TRUE],
                               gitignore, gs, d, locked)
            ELSE Ok([node EXCEPT !.expanded = TRUE]),
            rel_path, gitignore, gs, d, locked)

\* the loop of expand_changed_paths over git_status.map.keys()
RECURSIVE expand_keys(_, _, _, _, _, _)

\* the `?` of expand_changed_paths: the first error ends the loop
expand_keys_after(one, keys, gitignore, gs, d, locked) ==
    IF ~one.ok THEN one
    ELSE expand_keys(one.node, Tail(keys), gitignore, gs, d, locked)

expand_keys(node, keys, gitignore, gs, d, locked) ==
    IF keys = <<>> THEN Ok(node)
    ELSE expand_keys_after(
            IF starts_with(Head(keys), RootPath)
            THEN expand_path(node, strip_prefix(Head(keys), RootPath),
                             gitignore, gs, d, locked)
            ELSE Ok(node),
            keys, gitignore, gs, d, locked)

expand_changed_paths(node, gitignore, gs, d, locked) ==
    expand_keys(node, set_to_seq(DOMAIN gs.map), gitignore, gs, d, locked)

\* node_at_mut: the node an index path leads to (indices count from 0)
RECURSIVE node_at(_, _)
node_at(node, indices) ==
    IF indices = <<>> THEN Some(node)
    ELSE IF node.children = None THEN None
    ELSE IF Head(indices) >= Len(Unwrap(node.children)) THEN None
    ELSE node_at(Unwrap(node.children)[Head(indices) + 1], Tail(indices))

\* the tree after an assignment through the reference node_at_mut returns
RECURSIVE store_at(_, _, _)
store_at(node, indices, new) ==
    IF indices = <<>> THEN new
    ELSE [node EXCEPT !.children = Some(
            [Unwrap(node.children) EXCEPT ![Head(indices) + 1] =
                store_at(Unwrap(node.children)[Head(indices) + 1],
                         Tail(indices), new)])]

parent_at(node, indices) ==
    IF indices = <<>> THEN None
    ELSE node_at(node, SubSeq(indices, 1, Len(indices) - 1))

-----------------------------------------------------------------------------
(* Visible list flattener *)

VBar == 9474

Space == 32

Corner == 9492

Tee == 9500

\* make_prefix with the bar drawn for the ancestors that are last children
make_prefix_inverted(bars, is_last) ==
    [i \in 1..Len(bars) |-> IF bars[i] THEN Space ELSE VBar]
        \o <<IF is_last THEN Corner ELSE Tee>>

\* make_prefix that ends every prefix with a tee
make_prefix_always_tee(bars, is_last) ==
    [i \in 1..Len(bars) |-> IF bars[i] THEN VBar ELSE Space] \o <<Tee>>

make_prefix(bars, is_last) ==
    [i \in 1..Len(bars) |-> IF bars[i] THEN VBar ELSE Space]
        \o <<IF is_last THEN Corner ELSE Tee>>

RECURSIVE collect_visible(_, _, _, _, _, _)
RECURSIVE collect_children(_, _, _, _, _)
\* collect_visible descending into collapsed directories too
collect_visible_ignores_expanded(node, indices, bars, is_root, is_last, root_metrics) ==
    LET entry == [ indices |-> indices,
                   prefix |-> IF is_root THEN <<>> ELSE make_prefix(bars, is_last),
                   path |-> node.path,
                   is_dir |-> node.is_dir,
                   icon |-> node.icon,
                   icon_key |-> node.icon_key,
                   status |-> node.status,
                   modified |-> node.modified,
                   subtree_changes |-> node.subtree_changes,
                   metrics |-> IF indices = <<>> THEN root_metrics ELSE <<>>,
                   name |-> node.name,
                   ignored |-> node.ignored ]
    IN  <<entry>> \o
        ( IF node.is_dir /\ IsSome(node.children)
          THEN collect_children(Unwrap(node.children), 0, indices,
                                Append(bars, ~is_last), root_metrics)
          ELSE <<>> )

collect_visible(node, indices, bars, is_root, is_last, root_metrics) ==
    LET entry == [ indices |-> indices,
                   prefix |-> IF is_root THEN <<>> ELSE make_prefix(bars, is_last),
                   path |-> node.path,
                   is_dir |-> node.is_dir,
                   icon |-> node.icon,
                   icon_key |-> node.icon_key,
                   status |-> node.status,
                   modified |-> node.modified,
                   subtree_changes |-> node.subtree_changes,
                   metrics |-> IF indices = <<>> THEN root_metrics ELSE <<>>,
                   name |-> node.name,
                   ignored |-> node.ignored ]
    IN  <<entry>> \o
        ( IF node.is_dir /\ node.expanded /\ IsSome(node.children)
          THEN collect_children(Unwrap(node.children), 0, indices,
                                Append(bars, ~is_last), root_metrics)
          ELSE <<>> )

\* the for loop of collect_visible over children[idx..]
collect_children(children, idx, indices, bars, root_metrics) ==
    IF idx >= Len(children) THEN <<>>
    ELSE collect_visible(children[idx + 1], Append(indices, idx), bars, FALSE,
                         idx = saturating_sub(Len(children), 1), root_metrics)
         \o collect_children(children, idx + 1, indices, bars, root_metrics)

\* Vec::get and slice::get (indices count from 0)
get(vec, idx) == IF idx < Len(vec) THEN Some(vec[idx + 1]) ELSE None

\* Vec::remove
remove(vec, idx) == SubSeq(vec, 1, idx) \o SubSeq(vec, idx + 2, Len(vec))

\* iter().position(|entry| entry.path == path)
position(vec, path) ==
    LET hits == { i \in 1..Len(vec) : vec[i].path = path }
    IN  IF hits = {} THEN None
        ELSE Some((CHOOSE i \in hits : \A j \in hits : i <= j) - 1)

\* format!("\u{2191}{} \u{2193}{} S{} U{} ?{}", ...), or nothing when all
\* five numbers are 0
format_git_metrics(git) ==
    IF /\ git.ahead = 0
       /\ git.behind = 0
       /\ git.counts.staged = 0
       /\ git.counts.unstaged = 0
       /\ git.counts.untracked = 0
    THEN <<>>
    ELSE <<8593>> \o to_digits(git.ahead)
         \o <<32, 8595>> \o to_digits(git.behind)
         \o <<32, 83>> \o to_digits(git.counts.staged)
         \o <<32, 85>> \o to_digits(git.counts.unstaged)
         \o <<32, 63>> \o to_digits(git.counts.untracked)

\* refresh_visible without self.visible.clear()
refresh_visible_appends(a) ==
    LET vis == a.visible \o collect_visible(a.root, <<>>, <<>>, TRUE, TRUE,
                                            format_git_metrics(a.git_status))
    IN  [a EXCEPT
            !.visible = vis,
            !.focus = IF a.focus >= Len(vis) THEN Len(vis) - 1 ELSE a.focus,
            !.pending_delete =
                IF IsSome(a.pending_delete)
                   /\ Unwrap(a.pending_delete) >= Len(vis)
                THEN None ELSE a.pending_delete]

refresh_visible(a) ==
    LET vis == collect_visible(a.root, <<>>, <<>>, TRUE, TRUE,
                               format_git_metrics(a.git_status))
    IN  IF vis = <<>>
        THEN [a EXCEPT !.visible = vis, !.focus = 0, !.scroll = 0]
        ELSE [a EXCEPT
                !.visible = vis,
                !.focus = IF a.focus >= Len(vis) THEN Len(vis) - 1 ELSE a.focus,
                !.pending_delete =
                    IF IsSome(a.pending_delete)
                       /\ Unwrap(a.pending_delete) >= Len(vis)
                    THEN None ELSE a.pending_delete]

-----------------------------------------------------------------------------
(* ANSI-to-styled-text adapter.  A text is a sequence of character codes;  *)
(* a colour is <<name>>, <<"Indexed", n>> or <<"Rgb", r, g, b>>.           *)

ESC == 27

LBracket == 91

Semicolon == 59

Plus == 43

LetterM == 109

U16_MAX == 65535

Indexed(n) == <<"Indexed", n>>

Rgb(r, g, b) == <<"Rgb", r, g, b>>

\* a conversion to u8 that saturates
as_u8_saturates(n) == IF n > 255 THEN 255 ELSE n

\* `as u8`
as_u8(n) == n % 256

\* TextStyle::default()
DefaultStyle ==
    [ fg |-> None, bg |-> None, bold |-> FALSE, dim |-> FALSE,
      italic |-> FALSE, underline |-> FALSE ]

StyledSpan(text, style) == [text |-> text, style |-> style]

ansi_color(code) ==
    CASE code = 30 -> <<"Black">>
      [] code = 31 -> <<"Red">>
      [] code = 32 -> <<"Green">>
      [] code = 33 -> <<"Yellow">>
      [] code = 34 -> <<"Blue">>
      [] code = 35 -> <<"Magenta">>
      [] code = 36 -> <<"Cyan">>
      [] code = 37 -> <<"Gray">>
      [] code = 90 -> <<"DarkGray">>
      [] code = 91 -> <<"LightRed">>
      [] code = 92 -> <<"LightGreen">>
      [] code = 93 -> <<"LightYellow">>
      [] code = 94 -> <<"LightBlue">>
      [] code = 95 -> <<"LightMagenta">>
      [] code = 96 -> <<"LightCyan">>
      [] code = 97 -> <<"White">>
      [] OTHER -> <<"White">>

\* parse_extended_color that takes every parameter left in the sequence
parse_extended_color_takes_all(codes) ==
    IF codes = <<>> THEN None
    ELSE IF codes[1] = 5 /\ Len(codes) >= 2
    THEN Some([color |-> Indexed(as_u8(codes[2])), consumed |-> Len(codes)])
    ELSE IF codes[1] = 2 /\ Len(codes) >= 4
    THEN Some([color |-> Rgb(as_u8(codes[2]), as_u8(codes[3]),
                             as_u8(codes[4])),
               consumed |-> Len(codes)])
    ELSE None

\* Option<(Color, usize)>: the colour and the number of parameters it took
parse_extended_color(codes) ==
    IF codes = <<>> THEN None
    ELSE IF codes[1] = 5
    THEN IF Len(codes) >= 2
         THEN Some([color |-> Indexed(as_u8(codes[2])), consumed |-> 2])
         ELSE None
    ELSE IF codes[1] = 2
    THEN IF Len(codes) >= 4
         THEN Some([color |-> Rgb(as_u8(codes[2]), as_u8(codes[3]),
                                  as_u8(codes[4])),
                    consumed |-> 4])
         ELSE None
    ELSE None

RECURSIVE digits_value(_, _)
digits_value(s, acc) ==
    IF s = <<>> THEN Some(acc)
    ELSE IF Head(s) \notin 48..57 THEN None
    ELSE IF acc * 10 + (Head(s) - 48) > U16_MAX THEN None
    ELSE digits_value(Tail(s), acc * 10 + (Head(s) - 48))

\* str::parse::<u16>(): decimal digits after an optional +, no overflow
parse_u16(part) ==
    IF part = <<>> THEN None
    ELSE IF Head(part) = Plus
    THEN IF Tail(part) = <<>> THEN None ELSE digits_value(Tail(part), 0)
    ELSE digits_value(part, 0)

\* the parts that are not empty and parse, as numbers
RECURSIVE codes_vec_of(_)
codes_vec_of(parts) ==
    IF parts = <<>> THEN <<>>
    ELSE IF Head(parts) # <<>> /\ IsSome(parse_u16(Head(parts)))
    THEN <<Unwrap(parse_u16(Head(parts)))>> \o codes_vec_of(Tail(parts))
    ELSE codes_vec_of(Tail(parts))

\* the match of apply_sgr whose arm for 22 clears bold alone
sgr_arm_22_clears_bold(code, style, ext) ==
    CASE code = 0 -> DefaultStyle
      [] code = 1 -> [style EXCEPT !.bold = TRUE]
      [] code = 2 -> [style EXCEPT !.dim = TRUE]
      [] code = 3 -> [style EXCEPT !.italic = TRUE]
      [] code = 4 -> [style EXCEPT !.underline = TRUE]
      [] code = 22 -> [style EXCEPT !.bold = FALSE]
      [] code = 23 -> [style EXCEPT !.italic = FALSE]
      [] code = 24 -> [style EXCEPT !.underline = FALSE]
      [] code = 39 -> [style EXCEPT !.fg = None]
      [] code = 49 -> [style EXCEPT !.bg = None]
      [] code \in 30..37 \/ code \in 90..97 ->
            [style EXCEPT !.fg = Some(ansi_color(code))]
      [] code \in 40..47 \/ code \in 100..107 ->
            [style EXCEPT !.bg = Some(ansi_color(code - 10))]
      [] code = 38 /\ IsSome(ext) ->
            [style EXCEPT !.fg = Some(Unwrap(ext).color)]
      [] code = 48 /\ IsSome(ext) ->
            [style EXCEPT !.bg = Some(Unwrap(ext).color)]
      [] OTHER -> style

\* one arm of the match of apply_sgr: the style after codes_vec[i], ext being
\* the extended colour read from the parameters behind it
sgr_arm(code, style, ext) ==
    CASE code = 0 -> DefaultStyle
      [] code = 1 -> [style EXCEPT !.bold = TRUE]
      [] code = 2 -> [style EXCEPT !.dim = TRUE]
      [] code = 3 -> [style EXCEPT !.italic = TRUE]
      [] code = 4 -> [style EXCEPT !.underline = TRUE]
      [] code = 22 -> [style EXCEPT !.bold = FALSE, !.dim = FALSE]
      [] code = 23 -> [style EXCEPT !.italic = FALSE]
      [] code = 24 -> [style EXCEPT !.underline = FALSE]
      [] code = 39 -> [style EXCEPT !.fg = None]
      [] code = 49 -> [style EXCEPT !.bg = None]
      [] code \in 30..37 \/ code \in 90..97 ->
            [style EXCEPT !.fg = Some(ansi_color(code))]
      [] code \in 40..47 \/ code \in 100..107 ->
            [style EXCEPT !.bg = Some(ansi_color(code - 10))]
      [] code = 38 /\ IsSome(ext) ->
            [style EXCEPT !.fg = Some(Unwrap(ext).color)]
      [] code = 48 /\ IsSome(ext) ->
            [style EXCEPT !.bg = Some(Unwrap(ext).color)]
      [] OTHER -> style

\* the parameters the arm takes besides the code itself
sgr_consumed(code, ext) ==
    IF code \in {38, 48} /\ IsSome(ext) THEN Unwrap(ext).consumed ELSE 0

\* parse_extended_color(&codes_vec[i + 1..]) (i counts from 0)
ext_at(codes_vec, i) ==
    parse_extended_color(SubSeq(codes_vec, i + 2, Len(codes_vec)))

\* apply_sgr that stops behind the first code
sgr_loop_first_only(codes_vec, i, style) ==
    IF i >= Len(codes_vec) \/ i > 0 THEN style
    ELSE sgr_arm(codes_vec[1], style, ext_at(codes_vec, 0))

\* the while loop of apply_sgr
RECURSIVE sgr_loop(_, _, _)
sgr_loop(codes_vec, i, style) ==
    IF i >= Len(codes_vec) THEN style
    ELSE sgr_loop(codes_vec,
                  i + sgr_consumed(codes_vec[i + 1], ext_at(codes_vec, i)) + 1,
                  sgr_arm(codes_vec[i + 1], style, ext_at(codes_vec, i)))

apply_sgr(codes, style) ==
    IF codes = <<>> THEN DefaultStyle
    ELSE sgr_loop(codes_vec_of(split(codes, Semicolon, <<>>)), 0, style)

\* the characters before the first m
RECURSIVE take_codes(_)
take_codes(chars) ==
    IF chars = <<>> \/ Head(chars) = LetterM THEN <<>>
    ELSE <<Head(chars)>> \o take_codes(Tail(chars))

\* what is left behind the m that ends the codes, or nothing without an m
after_codes(chars, codes) == SubSeq(chars, Len(codes) + 2, Len(chars))

\* buf pushed to spans whether or not it is empty
flush_pushes_empty(spans, buf, style) ==
    Append(spans, StyledSpan(buf, style))

\* buf pushed to spans when it is not empty
flush(spans, buf, style) ==
    IF buf # <<>> THEN Append(spans, StyledSpan(buf, style)) ELSE spans

RECURSIVE parse_ansi_loop(_, _, _, _)

\* the loop that applies the codes before it pushes the pending text
parse_ansi_loop_flushes_late(chars, style, buf, spans) ==
    IF chars = <<>>
    THEN [spans |-> flush(spans, buf, style), style |-> style]
    ELSE IF Head(chars) = ESC /\ Len(chars) >= 2 /\ chars[2] = LBracket
    THEN parse_ansi_loop(
            after_codes(Tail(Tail(chars)), take_codes(Tail(Tail(chars)))),
            apply_sgr(take_codes(Tail(Tail(chars))), style),
            <<>>,
            flush(spans, buf,
                  apply_sgr(take_codes(Tail(Tail(chars))), style)))
    ELSE parse_ansi_loop(Tail(chars), style, Append(buf, Head(chars)), spans)

\* the while loop of parse_ansi_spans, from a given style: the spans and
\* the style at the end of the line
parse_ansi_loop(chars, style, buf, spans) ==
    IF chars = <<>>
    THEN [spans |-> flush(spans, buf, style), style |-> style]
    ELSE IF Head(chars) = ESC /\ Len(chars) >= 2 /\ chars[2] = LBracket
    THEN parse_ansi_loop(
            after_codes(Tail(Tail(chars)), take_codes(Tail(Tail(chars)))),
            apply_sgr(take_codes(Tail(Tail(chars))), style),
            <<>>,
            flush(spans, buf, style))
    ELSE parse_ansi_loop(Tail(chars), style, Append(buf, Head(chars)), spans)

parse_ansi_spans(line) ==
    parse_ansi_loop(line, DefaultStyle, <<>>, <<>>).spans

StyledLine(spans) == [spans |-> spans]

RECURSIVE map_lines(_)
map_lines(ls) ==
    IF ls = <<>> THEN <<>>
    ELSE <<StyledLine(parse_ansi_spans(Head(ls)))>> \o map_lines(Tail(ls))

\* the lines parsed one after the other with the style carried along
RECURSIVE map_lines_carrying(_, _)
map_lines_carrying(ls, style) ==
    IF ls = <<>> THEN <<>>
    ELSE <<StyledLine(parse_ansi_loop(Head(ls), style, <<>>, <<>>).spans)>>
         \o map_lines_carrying(
              Tail(ls), parse_ansi_loop(Head(ls), style, <<>>, <<>>).style)

\* parse_ansi_lines that starts a line in the style the line before ended in
parse_ansi_lines_carrying(text) ==
    map_lines_carrying(str_lines(text, <<>>), DefaultStyle)

parse_ansi_lines(text) == map_lines(str_lines(text, <<>>))

-----------------------------------------------------------------------------
(* Interaction controller: the handlers, as functions of the App *)

\* the status line: the format string and the value it is formatted with
Msg(text, arg) == [text |-> text, arg |-> arg]

HelpStatus ==
    Msg("q: quit  j/k: move  h/l/Enter: collapse/expand  d: delete  o: open  N: nvim  C: copy",
        <<>>)

ClosedStatus ==
    Msg("q: quit  j/k: move  h/l/Enter: collapse/expand  d: delete  y: confirm  o: open",
        <<>>)

\* the rows of the tree area and of the viewer's content area: the Layout
\* of render keeps one row for the title and one for the status bar
view_height_of(height) == saturating_sub(height, 2)

move_focus(a, delta) ==
    IF a.visible = <<>> THEN a
    ELSE LET len == Len(a.visible)
             next == a.focus + delta
             low == IF next < 0 THEN 0 ELSE next
         IN  [a EXCEPT !.focus = IF low >= len THEN len - 1 ELSE low]

collapse_node(a) ==
    LET entry == get(a.visible, a.focus)
        node == IF IsSome(entry) THEN node_at(a.root, Unwrap(entry).indices)
                ELSE None
    IN  IF IsSome(node) /\ Unwrap(node).is_dir /\ Unwrap(node).expanded
        THEN [a EXCEPT
                !.root = store_at(a.root, Unwrap(entry).indices,
                                  [Unwrap(node) EXCEPT !.expanded = FALSE]),
                !.status = Msg("collapsed {}", Unwrap(node).name)]
        ELSE a

\* expand_and_load reading the directory again whether or not its children
\* are loaded
expand_and_load_reloads(a, indices, node, d, locked) ==
    LET opened == [node EXCEPT !.expanded = TRUE]
        loaded == load_children(opened, a.gitignore, a.git_status, d, locked)
    IN  [a EXCEPT
            !.root = store_at(a.root, indices, loaded.node),
            !.status = IF loaded.ok THEN a.status
                       ELSE Msg("error: {}", path_bytes(node.path))]

\* the shared tail of expand_node and toggle_expand: set expanded, load the
\* children if there are none, report a failed load on the status line
expand_and_load(a, indices, node, d, locked) ==
    LET opened == [node EXCEPT !.expanded = TRUE]
        loaded == IF opened.children = None
                  THEN load_children(opened, a.gitignore, a.git_status,
                                     d, locked)
                  ELSE Ok(opened)
    IN  [a EXCEPT
            !.root = store_at(a.root, indices, loaded.node),
            !.status = IF loaded.ok THEN a.status
                       ELSE Msg("error: {}", path_bytes(node.path))]

expand_node(a, d, locked) ==
    LET entry == get(a.visible, a.focus)
        node == IF IsSome(entry) THEN node_at(a.root, Unwrap(entry).indices)
                ELSE None
    IN  IF IsSome(node) /\ Unwrap(node).is_dir
        THEN expand_and_load(a, Unwrap(entry).indices, Unwrap(node), d, locked)
        ELSE a

toggle_expand(a, d, locked) ==
    LET entry == get(a.visible, a.focus)
        node == IF IsSome(entry) THEN node_at(a.root, Unwrap(entry).indices)
                ELSE None
    IN  IF IsSome(node) /\ Unwrap(node).is_dir
        THEN IF Unwrap(node).expanded
             THEN [a EXCEPT
                     !.root = store_at(a.root, Unwrap(entry).indices,
                                       [Unwrap(node) EXCEPT !.expanded = FALSE]),
                     !.status = Msg("collapsed {}", Unwrap(node).name)]
             ELSE expand_and_load(a, Unwrap(entry).indices, Unwrap(node),
                                  d, locked)
        ELSE a

\* Path::is_dir: the path exists and is a directory
path_is_dir(path, d) == path \in d /\ path \in DirPaths

\* bat is the outcome of the pretty-printer: whether it ran and exited
\* successfully, and its standard output
\* open_with_bat that opens an empty viewer when the pretty-printer fails
open_with_bat_opens_anyway(a, d, bat) ==
    LET entry == get(a.visible, a.focus)
    IN  IF entry = None THEN a
        ELSE IF path_is_dir(Unwrap(entry).path, d)
        THEN [a EXCEPT !.status = Msg("cannot open a directory", <<>>)]
        ELSE [a EXCEPT
                !.viewer = Some([ title |-> Unwrap(entry).path,
                                  lines |-> parse_ansi_lines(bat.stdout),
                                  scroll |-> 0,
                                  pending_g |-> FALSE ]),
                !.status = IF bat.ok
                           THEN Msg("VIEW: q close  j/k scroll  gg/G top/bottom",
                                    <<>>)
                           ELSE Msg("bat failed: {}",
                                    path_bytes(Unwrap(entry).path))]

open_with_bat(a, d, bat) ==
    LET entry == get(a.visible, a.focus)
    IN  IF entry = None THEN a
        ELSE IF path_is_dir(Unwrap(entry).path, d)
        THEN [a EXCEPT !.status = Msg("cannot open a directory", <<>>)]
        ELSE IF bat.ok
        THEN [a EXCEPT
                !.viewer = Some([ title |-> Unwrap(entry).path,
                                  lines |-> parse_ansi_lines(bat.stdout),
                                  scroll |-> 0,
                                  pending_g |-> FALSE ]),
                !.status = Msg("VIEW: q close  j/k scroll  gg/G top/bottom", <<>>)]
        ELSE [a EXCEPT !.status = Msg("bat failed: {}",
                                      path_bytes(Unwrap(entry).path))]

\* the entry open_with_bat hands to the pretty-printer, if it gets that far
bat_target(a, d) ==
    LET entry == get(a.visible, a.focus)
    IN  IF IsSome(entry) /\ ~path_is_dir(Unwrap(entry).path, d)
        THEN entry ELSE None

toggle_or_open(a, d, locked, bat) ==
    LET entry == get(a.visible, a.focus)
    IN  IF entry = None THEN a
        ELSE IF path_is_dir(Unwrap(entry).path, d)
        THEN toggle_expand(a, d, locked)
        ELSE open_with_bat(a, d, bat)

\* prompt_delete without the refusal on the root row
prompt_delete_arms_root(a) ==
    LET entry == get(a.visible, a.focus)
    IN  IF entry = None THEN a
        ELSE [a EXCEPT
                !.pending_delete = Some(a.focus),
                !.status = Msg("Delete {}? y to confirm, Esc to cancel",
                               Unwrap(entry).name)]

prompt_delete(a) ==
    LET entry == get(a.visible, a.focus)
    IN  IF entry = None THEN a
        ELSE IF Unwrap(entry).indices = <<>>
        THEN [a EXCEPT !.status = Msg("cannot delete root", <<>>)]
        ELSE [a EXCEPT
                !.pending_delete = Some(a.focus),
                !.status = Msg("Delete {}? y to confirm, Esc to cancel",
                               Unwrap(entry).name)]

\* cancel_delete with the disarming forgotten
cancel_delete_keeps_armed(a) ==
    IF IsSome(a.pending_delete)
    THEN [a EXCEPT !.status = Msg("delete canceled", <<>>)]
    ELSE a

cancel_delete(a) ==
    IF IsSome(a.pending_delete)
    THEN [a EXCEPT !.pending_delete = None,
                   !.status = Msg("delete canceled", <<>>)]
    ELSE a

\* the entry confirm_delete hands to trash::delete, if it gets that far
delete_target(a) ==
    LET entry == IF IsSome(a.pending_delete)
                 THEN get(a.visible, Unwrap(a.pending_delete))
                 ELSE None
    IN  IF IsSome(entry) /\ Unwrap(entry).indices # <<>> THEN entry ELSE None

\* confirm_delete that stays armed when trash::delete fails
confirm_delete_stays_armed(a, trash_ok) ==
    LET idx == a.pending_delete
        entry == IF IsSome(idx) THEN get(a.visible, Unwrap(idx)) ELSE None
    IN  IF idx = None THEN a
        ELSE IF entry = None THEN a
        ELSE IF Unwrap(entry).indices = <<>>
        THEN [a EXCEPT !.status = Msg("cannot delete root", <<>>),
                       !.pending_delete = None]
        ELSE IF ~trash_ok
        THEN [a EXCEPT !.status = Msg("delete failed: {}",
                                      path_bytes(Unwrap(entry).path))]
        ELSE LET indices == Unwrap(entry).indices
                 up == SubSeq(indices, 1, Len(indices) - 1)
                 par == parent_at(a.root, indices)
                 remove_idx == indices[Len(indices)]
                 pruned ==
                    IF IsSome(par) /\ IsSome(Unwrap(par).children)
                       /\ remove_idx < Len(Unwrap(Unwrap(par).children))
                    THEN store_at(a.root, up,
                            [Unwrap(par) EXCEPT !.children =
                                Some(remove(Unwrap(Unwrap(par).children),
                                            remove_idx))])
                    ELSE a.root
             IN  [a EXCEPT !.root = pruned,
                           !.pending_delete = None,
                           !.status = Msg("deleted {}", Unwrap(entry).name)]

\* trash_ok is the outcome of trash::delete
confirm_delete(a, trash_ok) ==
    LET idx == a.pending_delete
        entry == IF IsSome(idx) THEN get(a.visible, Unwrap(idx)) ELSE None
    IN  IF idx = None THEN a
        ELSE IF entry = None THEN a
        ELSE IF Unwrap(entry).indices = <<>>
        THEN [a EXCEPT !.status = Msg("cannot delete root", <<>>),
                       !.pending_delete = None]
        ELSE IF ~trash_ok
        THEN [a EXCEPT !.status = Msg("delete failed: {}",
                                      path_bytes(Unwrap(entry).path)),
                       !.pending_delete = None]
        ELSE LET indices == Unwrap(entry).indices
                 up == SubSeq(indices, 1, Len(indices) - 1)
                 par == parent_at(a.root, indices)
                 remove_idx == indices[Len(indices)]
                 pruned ==
                    IF IsSome(par) /\ IsSome(Unwrap(par).children)
                       /\ remove_idx < Len(Unwrap(Unwrap(par).children))
                    THEN store_at(a.root, up,
                            [Unwrap(par) EXCEPT !.children =
                                Some(remove(Unwrap(Unwrap(par).children),
                                            remove_idx))])
                    ELSE a.root
             IN  [a EXCEPT !.root = pruned,
                           !.pending_delete = None,
                           !.status = Msg("deleted {}", Unwrap(entry).name)]

\* what trash::delete leaves on the disk: the path and all beneath it go
trash_delete(path, d) == { p \in d : ~starts_with(p, path) }

-----------------------------------------------------------------------------
(* Keys, mouse events and the handlers that dispatch on them *)

Key(code, shift) == [code |-> code, shift |-> shift]

\* the key events: every key handle_key names and one it does not ("x").
\* An upper-case letter arrives as its own code with SHIFT set, which is how
\* handle_key matches C and N; it matches G as the code g with SHIFT set.
Keys ==
    { Key(c, FALSE) : c \in { "q", "j", "k", "g", "h", "l", "d", "o", "y",
                              "Enter", "Esc", "x" } }
    \cup { Key(c, TRUE) : c \in { "C", "N", "G", "g" } }

\* the outcome of the clipboard tool (C) or of the tmux popup (N) is an
\* input; both handlers only write the status line
copy_path_to_clipboard(a, tool_ok) ==
    LET entry == get(a.visible, a.focus)
    IN  IF entry = None THEN a
        ELSE IF tool_ok
        THEN [a EXCEPT !.status =
                Msg("copied: {}",
                    path_bytes(strip_prefix(Unwrap(entry).path, RootPath)))]
        ELSE [a EXCEPT !.status = Msg("failed to copy to clipboard", <<>>)]

open_in_nvim_popup(a, d, tool_ok) ==
    LET entry == get(a.visible, a.focus)
    IN  IF entry = None THEN a
        ELSE IF path_is_dir(Unwrap(entry).path, d)
        THEN [a EXCEPT !.status = Msg("cannot open a directory in nvim", <<>>)]
        ELSE IF tool_ok
        THEN [a EXCEPT !.status = Msg("opened: {}", file_name(Unwrap(entry).path))]
        ELSE [a EXCEPT !.status = Msg("failed to open nvim popup", <<>>)]

\* handle_key in Browsing (app.viewer is None); `q` is handled by the loop
handle_key(a, key, d, locked, tool_ok, bat, trash_ok) ==
    CASE key.code \in {"j", "Down"} -> move_focus(a, 1)
      [] key.code \in {"k", "Up"} -> move_focus(a, -1)
      [] key.code = "g" /\ key.shift ->
            [a EXCEPT !.focus = saturating_sub(Len(a.visible), 1)]
      [] key.code = "g" /\ ~key.shift -> [a EXCEPT !.focus = 0]
      [] key.code \in {"h", "Left"} -> collapse_node(a)
      [] key.code \in {"l", "Right"} -> expand_node(a, d, locked)
      [] key.code = "d" -> prompt_delete(a)
      [] key.code = "o" -> open_with_bat(a, d, bat)
      [] key.code = "y" -> confirm_delete(a, trash_ok)
      [] key.code = "C" -> copy_path_to_clipboard(a, tool_ok)
      [] key.code = "N" -> open_in_nvim_popup(a, d, tool_ok)
      [] key.code = "Enter" -> toggle_or_open(a, d, locked, bat)
      [] key.code = "Esc" -> cancel_delete(a)
      [] OTHER -> a

\* handle_viewer_key with the chord's first state forgotten: any g goes to
\* the top
handle_viewer_key_single_g(a, key, height) ==
    LET v == Unwrap(a.viewer)
        view_height == saturating_sub(height, 2)
        max_scroll == saturating_sub(Len(v.lines), view_height)
    IN  CASE key.code \in {"q", "Esc"} ->
                [a EXCEPT !.viewer = None, !.status = ClosedStatus]
          [] key.code \in {"j", "Down"} ->
                [a EXCEPT !.viewer = Some([v EXCEPT
                    !.scroll = Min(v.scroll + 1, max_scroll),
                    !.pending_g = FALSE])]
          [] key.code \in {"k", "Up"} ->
                [a EXCEPT !.viewer = Some([v EXCEPT
                    !.scroll = saturating_sub(v.scroll, 1),
                    !.pending_g = FALSE])]
          [] key.code = "g" /\ key.shift ->
                [a EXCEPT !.viewer = Some([v EXCEPT
                    !.scroll = max_scroll, !.pending_g = FALSE])]
          [] key.code = "g" /\ ~key.shift ->
                [a EXCEPT !.viewer = Some([v EXCEPT
                    !.scroll = 0, !.pending_g = ~v.pending_g])]
          [] OTHER ->
                [a EXCEPT !.viewer = Some([v EXCEPT !.pending_g = FALSE])]

\* handle_viewer_key passing `d` on to the handler of Browsing
handle_viewer_key_passes_d(a, key, height) ==
    LET v == Unwrap(a.viewer)
        view_height == saturating_sub(height, 2)
        max_scroll == saturating_sub(Len(v.lines), view_height)
    IN  CASE key.code \in {"q", "Esc"} ->
                [a EXCEPT !.viewer = None, !.status = ClosedStatus]
          [] key.code \in {"j", "Down"} ->
                [a EXCEPT !.viewer = Some([v EXCEPT
                    !.scroll = Min(v.scroll + 1, max_scroll),
                    !.pending_g = FALSE])]
          [] key.code \in {"k", "Up"} ->
                [a EXCEPT !.viewer = Some([v EXCEPT
                    !.scroll = saturating_sub(v.scroll, 1),
                    !.pending_g = FALSE])]
          [] key.code = "g" /\ key.shift ->
                [a EXCEPT !.viewer = Some([v EXCEPT
                    !.scroll = max_scroll, !.pending_g = FALSE])]
          [] key.code = "g" /\ ~key.shift ->
                IF v.pending_g
                THEN [a EXCEPT !.viewer = Some([v EXCEPT
                        !.scroll = 0, !.pending_g = FALSE])]
                ELSE [a EXCEPT !.viewer = Some([v EXCEPT !.pending_g = TRUE])]
          [] key.code = "d" -> prompt_delete(a)
          [] OTHER ->
                [a EXCEPT !.viewer = Some([v EXCEPT !.pending_g = FALSE])]

\* handle_viewer_key (app.viewer is Some)
handle_viewer_key(a, key, height) ==
    LET v == Unwrap(a.viewer)
        view_height == saturating_sub(height, 2)
        max_scroll == saturating_sub(Len(v.lines), view_height)
    IN  CASE key.code \in {"q", "Esc"} ->
                [a EXCEPT !.viewer = None, !.status = ClosedStatus]
          [] key.code \in {"j", "Down"} ->
                [a EXCEPT !.viewer = Some([v EXCEPT
                    !.scroll = Min(v.scroll + 1, max_scroll),
                    !.pending_g = FALSE])]
          [] key.code \in {"k", "Up"} ->
                [a EXCEPT !.viewer = Some([v EXCEPT
                    !.scroll = saturating_sub(v.scroll, 1),
                    !.pending_g = FALSE])]
          [] key.code = "g" /\ key.shift ->
                [a EXCEPT !.viewer = Some([v EXCEPT
                    !.scroll = max_scroll, !.pending_g = FALSE])]
          [] key.code = "g" /\ ~key.shift ->
                IF v.pending_g
                THEN [a EXCEPT !.viewer = Some([v EXCEPT
                        !.scroll = 0, !.pending_g = FALSE])]
                ELSE [a EXCEPT !.viewer = Some([v EXCEPT !.pending_g = TRUE])]
          [] OTHER ->
                [a EXCEPT !.viewer = Some([v EXCEPT !.pending_g = FALSE])]

Mouse(kind, row) == [kind |-> kind, row |-> row]

\* handle_mouse while the viewer is open
handle_viewer_mouse(a, mouse, height) ==
    LET v == Unwrap(a.viewer)
        view_height == saturating_sub(height, 2)
        max_scroll == saturating_sub(Len(v.lines), view_height)
    IN  CASE mouse.kind = "ScrollDown" ->
                [a EXCEPT !.viewer = Some([v EXCEPT
                    !.scroll = Min(v.scroll + 1, max_scroll),
                    !.pending_g = FALSE])]
          [] mouse.kind = "ScrollUp" ->
                [a EXCEPT !.viewer = Some([v EXCEPT
                    !.scroll = saturating_sub(v.scroll, 1),
                    !.pending_g = FALSE])]
          [] OTHER -> a

\* the left-click arm of handle_mouse; quick says whether the stored click
\* is at most 400 ms old
left_click(a, row, height, d, locked, quick, bat) ==
    LET view_height == saturating_sub(height, 2)
        idx == a.scroll + row - 1
    IN  IF row = 0 \/ row > view_height THEN a
        ELSE IF idx >= Len(a.visible) THEN a
        ELSE LET focused == [a EXCEPT !.focus = idx]
                 is_double == /\ IsSome(a.last_click)
                              /\ Unwrap(a.last_click) = idx
                              /\ quick
             IN  IF a.visible[idx + 1].is_dir
                 THEN [toggle_expand(focused, d, locked) EXCEPT
                          !.last_click = None]
                 ELSE IF is_double
                 THEN open_with_bat([focused EXCEPT !.last_click = None], d, bat)
                 ELSE [focused EXCEPT !.last_click = Some(idx)]

\* the entry a left click hands to open_with_bat: a second quick click on
\* the row of a file
double_click_target(a, row, height, d, quick) ==
    LET idx == a.scroll + row - 1
    IN  IF /\ a.viewer = None
           /\ row # 0 /\ row <= saturating_sub(height, 2)
           /\ idx < Len(a.visible)
           /\ ~a.visible[idx + 1].is_dir
           /\ IsSome(a.last_click) /\ Unwrap(a.last_click) = idx /\ quick
        THEN bat_target([a EXCEPT !.focus = idx], d)
        ELSE None

handle_mouse(a, mouse, height, d, locked, quick, bat) ==
    IF IsSome(a.viewer) THEN handle_viewer_mouse(a, mouse, height)
    ELSE CASE mouse.kind = "ScrollDown" ->
                [move_focus(a, 1) EXCEPT !.last_click = None]
           [] mouse.kind = "ScrollUp" ->
                [move_focus(a, -1) EXCEPT !.last_click = None]
           [] mouse.kind = "Left" ->
                left_click(a, mouse.row, height, d, locked, quick, bat)
           [] OTHER -> a

-----------------------------------------------------------------------------
(* Building the tree: main at start-up and resync *)

\* build_node of the root, root expansion, expand_changed_paths
\* the root node with its children loaded, then expand_changed_paths
build_tree_opened(opened, gitignore, gs, d, locked) ==
    IF ~opened.ok THEN opened
    ELSE expand_changed_paths(opened.node, gitignore, gs, d, locked)

\* the root node, expanded and loaded when it is a directory
build_tree_root(node, gitignore, gs, d, locked) ==
    build_tree_opened(
        IF node.is_dir
        THEN load_children([node EXCEPT !.expanded = TRUE],
                           gitignore, gs, d, locked)
        ELSE Ok(node),
        gitignore, gs, d, locked)

build_tree(gitignore, gs, d, locked) ==
    IF RootPath \notin d THEN Err(build_node(RootPath, gitignore, gs, d))
    ELSE build_tree_root(build_node(RootPath, gitignore, gs, d),
                         gitignore, gs, d, locked)

\* App::new
new_app(root_node, gitignore, gs) ==
    [ root |-> root_node,
      gitignore |-> gitignore,
      git_status |-> gs,
      visible |-> <<>>,
      focus |-> 0,
      scroll |-> 0,
      status |-> HelpStatus,
      pending_delete |-> None,
      viewer |-> None,
      last_click |-> None ]

\* resync that leaves the focus on the row index it had
restore_focus_keeps_index(fresh, focused) == fresh

\* the end of resync: the focus goes back to the path it was on, when that
\* path is still shown
restore_focus(fresh, focused) ==
    IF IsSome(focused) /\ IsSome(position(fresh.visible, Unwrap(focused).path))
    THEN [fresh EXCEPT
            !.focus = Unwrap(position(fresh.visible, Unwrap(focused).path))]
    ELSE fresh

\* resync: [ok, app]; on an error the App is as it was
\* resync that keeps the tree it had and takes the new status index alone
resync_tree_keeps_root(a, gitignore, gs, tree) ==
    IF ~tree.ok THEN [ok |-> FALSE, app |-> a]
    ELSE [ok |-> TRUE,
          app |-> restore_focus(
                    refresh_visible([a EXCEPT !.gitignore = gitignore,
                                              !.git_status = gs]),
                    get(a.visible, a.focus))]

\* resync from the assignment of app.root on
resync_tree(a, gitignore, gs, tree) ==
    IF ~tree.ok THEN [ok |-> FALSE, app |-> a]
    ELSE [ok |-> TRUE,
          app |-> restore_focus(
                    refresh_visible([a EXCEPT !.root = tree.node,
                                              !.gitignore = gitignore,
                                              !.git_status = gs]),
                    get(a.visible, a.focus))]

resync_with(a, gitignore, gs, d, locked) ==
    resync_tree(a, gitignore, gs, build_tree(gitignore, gs, d, locked))

\* resync, with what the tools answer to load_git_status and build_gitignore
resync(a, run, d, locked) ==
    resync_with(a, build_gitignore(RootPath, run, d),
                load_git_status(RootPath, run), d, locked)

\* render_tree scrolling down one row short of the focus
render_tree_scrolls_short(a, view_height) ==
    LET up == IF a.focus < a.scroll THEN a.focus ELSE a.scroll
    IN  [a EXCEPT !.scroll =
            IF a.focus >= up + view_height /\ view_height > 0
            THEN a.focus - view_height
            ELSE up]

\* the scroll adjustment of render_tree
render_tree(a, view_height) ==
    LET up == IF a.focus < a.scroll THEN a.focus ELSE a.scroll
    IN  [a EXCEPT !.scroll =
            IF a.focus >= up + view_height /\ view_height > 0
            THEN a.focus - view_height + 1
            ELSE up]

\* render: render_viewer writes nothing to the App
render(a, height) ==
    IF IsSome(a.viewer) THEN a ELSE render_tree(a, view_height_of(height))

-----------------------------------------------------------------------------
(* Tree rows.  A style is a foreground, a background and a set of          *)
(* modifiers; a span is a text in a style.                                 *)

\* Style::default()
StyleDefault == [fg |-> None, bg |-> None, add_modifier |-> {}]

\* Style::fg
fg(style, color) == [style EXCEPT !.fg = Some(color)]

\* Style::add_modifier
add_modifier(style, modifier) ==
    [style EXCEPT !.add_modifier = @ \cup {modifier}]

\* Span::styled
Span(content, style) == [content |-> content, style |-> style]

color_for_key(key) ==
    CASE key = "directory" -> <<"Blue">>
      [] key = "symlink" -> <<"Cyan">>
      [] key = "executable" -> <<"Green">>
      [] key \in {"audio", "video"} -> <<"Magenta">>
      [] key = "image" -> <<"Yellow">>
      [] key \in {"document", "markdown"} -> <<"Yellow">>
      [] key \in {"json", "yaml", "toml", "settings"} -> <<"Yellow">>
      [] key \in {"rust", "go", "python", "javascript", "typescript", "cpp",
                  "c", "java", "kotlin", "csharp", "ruby", "php", "swift"} ->
            <<"Green">>
      [] key \in {"gitlab", "vcs"} -> <<"Red">>
      [] key = "lock" -> <<"DarkGray">>
      [] key = "log" -> <<"DarkGray">>
      [] OTHER -> <<"White">>

\* the codes are those of ?, D, A and M
color_for_status(status) ==
    LET x == IF Len(status) >= 1 THEN status[1] ELSE 32
        y == IF Len(status) >= 2 THEN status[2] ELSE 32
    IN  IF x = 63 \/ y = 63 THEN <<"Yellow">>
        ELSE IF x = 68 \/ y = 68 THEN <<"Red">>
        ELSE IF x = 65 \/ y = 65 THEN <<"Green">>
        ELSE IF x = 77 \/ y = 77 THEN <<"Blue">>
        ELSE <<"DarkGray">>

\* env::var_os("NO_COLOR").is_none()
should_color == ~no_color

\* base_style of build_tree_line
base_style(focused) ==
    IF focused THEN add_modifier(StyleDefault, "REVERSED") ELSE StyleDefault

\* the spans of the prefix, the icon and the name
head_spans(entry, focused, use_color) ==
    ( IF entry.prefix # <<>>
      THEN << Span(entry.prefix \o <<Space>>,
                   IF use_color /\ ~focused
                   THEN add_modifier(fg(base_style(focused), <<"DarkGray">>),
                                     "DIM")
                   ELSE base_style(focused)) >>
      ELSE <<>> )
    \o << Span(entry.icon \o <<Space>>,
               fg(base_style(focused),
                  IF use_color /\ ~focused THEN color_for_key(entry.icon_key)
                  ELSE <<"Reset">>)) >>
    \o << Span(entry.name,
               IF entry.ignored /\ ~focused
               THEN add_modifier(base_style(focused), "DIM")
               ELSE IF use_color /\ ~focused
               THEN fg(base_style(focused), color_for_key(entry.icon_key))
               ELSE base_style(focused)) >>

\* suffix_parts: each a text and a colour
suffix_parts(entry, use_color) ==
    ( IF ~trim_is_empty(entry.status)
      THEN << [text |-> entry.status,
               color |-> IF use_color THEN color_for_status(entry.status)
                         ELSE <<"Reset">>] >>
      ELSE <<>> )
    \o ( IF entry.modified # <<>>
         THEN << [text |-> entry.modified, color |-> <<"DarkGray">>] >>
         ELSE <<>> )
    \o ( IF entry.is_dir /\ entry.subtree_changes > 0
         THEN << [text |-> <<916>> \o to_digits(entry.subtree_changes),
                  color |-> <<"Yellow">>] >>
         ELSE <<>> )
    \o ( IF entry.metrics # <<>>
         THEN << [text |-> entry.metrics, color |-> <<"DarkGray">>] >>
         ELSE <<>> )

\* the sum of the lengths of the texts of spans or parts
RECURSIVE chars_count(_)
chars_count(texts) ==
    IF texts = <<>> THEN 0 ELSE Len(Head(texts)) + chars_count(Tail(texts))

RECURSIVE concat_spans(_)
concat_spans(groups) ==
    IF groups = <<>> THEN <<>>
    ELSE Head(groups) \o concat_spans(Tail(groups))

\* " ".repeat(pad) and "  "
spaces(n) == [i \in 1..n |-> Space]

\* the padding and the suffix parts with two spaces between them
suffix_spans(parts, focused, pad) ==
    ( IF pad > 0 THEN << Span(spaces(pad), base_style(focused)) >> ELSE <<>> )
    \o concat_spans(
          [i \in 1..Len(parts) |->
              ( IF i > 1 THEN << Span(spaces(2), base_style(focused)) >>
                ELSE <<>> )
              \o << Span(parts[i].text,
                         IF focused THEN base_style(focused)
                         ELSE fg(base_style(focused), parts[i].color)) >>])

\* build_tree_line drawing the cluster when it fits with no column to spare
build_tree_line_fits_exactly(entry, focused, use_color, width) ==
    LET spans == head_spans(entry, focused, use_color)
        current_len ==
            chars_count([i \in 1..Len(spans) |-> spans[i].content])
        parts == suffix_parts(entry, use_color)
        suffix_len ==
            chars_count([i \in 1..Len(parts) |-> parts[i].text])
                + saturating_sub(Len(parts), 1) * 2
    IN  IF parts # <<>> /\ current_len + suffix_len <= width
        THEN spans \o suffix_spans(parts, focused,
                        saturating_sub(saturating_sub(width, current_len),
                                       suffix_len))
        ELSE spans

build_tree_line(entry, focused, use_color, width) ==
    LET spans == head_spans(entry, focused, use_color)
        current_len ==
            chars_count([i \in 1..Len(spans) |-> spans[i].content])
        parts == suffix_parts(entry, use_color)
        suffix_len ==
            chars_count([i \in 1..Len(parts) |-> parts[i].text])
                + saturating_sub(Len(parts), 1) * 2
    IN  IF parts # <<>> /\ current_len + 1 + suffix_len < width
        THEN spans \o suffix_spans(parts, focused,
                        saturating_sub(saturating_sub(width, current_len),
                                       suffix_len))
        ELSE spans

\* the lines of render_tree: the rows from app.scroll on, view_height at most
render_tree_lines(a, view_height, use_color, width) ==
    [row \in 1..Min(view_height, saturating_sub(Len(a.visible), a.scroll))
        |-> build_tree_line(a.visible[a.scroll + row],
                            a.focus = a.scroll + row - 1, use_color, width)]

\* what the tree area shows after render: nothing of the tree in the viewer
tree_lines(a, height, use_color, width) ==
    IF IsSome(a.viewer) THEN None
    ELSE Some(render_tree_lines(a, view_height_of(height), use_color, width))

-----------------------------------------------------------------------------
(* Inputs *)

\* the most lines the pretty-printer's output has
MaxLines == 3

\* the terminal is 3 to MaxHeight rows high
MaxHeight == 4

\* last_refresh.elapsed() >= Duration::from_secs(30)
RESYNC_SECS == 30

Heights == 3..MaxHeight

\* a record of `git status --porcelain -z`: the two letters, a blank, the
\* path and a NUL; a rename or copy record has the path renamed to, a NUL,
\* the path renamed from (orig) and a NUL
porcelain_record(code, path, orig) ==
    code \o <<32>> \o path_bytes(path) \o <<NUL>>
    \o (IF orig = None THEN <<>> ELSE path_bytes(Unwrap(orig)) \o <<NUL>>)

\* the first line of `git status -sb` on a branch level with its upstream
BranchLine == <<35, 35, 32, 109, LF>>

\* what the tools answer in a repository at the explored root where the
\* files `changed` are changed: an untracked file as ??, a tracked one as
\* modified
status_code(path) == IF file_name(path) = Name_B THEN Untracked ELSE Modified

RECURSIVE porcelain_of(_)
porcelain_of(changed) ==
    IF changed = <<>> THEN <<>>
    ELSE porcelain_record(status_code(Head(changed)),
                          strip_prefix(Head(changed), RootPath), None)
         \o porcelain_of(Tail(changed))

GitStatusOf(changed) ==
    [ toplevel |-> Some(RootPath),
      porcelain |-> Some(porcelain_of(set_to_seq(changed))),
      sb |-> Some(BranchLine),
      compiles |-> TRUE ]

GitStatuses == { GitStatusOf(changed) : changed \in SUBSET FilePaths }

BatFailed == [ok |-> FALSE, stdout |-> <<>>]

\* a text of n lines without escape sequences
RECURSIVE PlainText(_)
PlainText(n) == IF n = 0 THEN <<>> ELSE <<120, LF>> \o PlainText(n - 1)

PlainTexts == { PlainText(n) : n \in 0..MaxLines }

\* the pretty-printer fails on a path that does not exist; when it runs its
\* output is one of the texts of `outputs`
BatOutcomes(a, d, outputs) ==
    LET entry == get(a.visible, a.focus)
    IN  {BatFailed} \cup
        IF IsSome(entry) /\ Unwrap(entry).path \in d
        THEN { [ok |-> TRUE, stdout |-> t] : t \in outputs }
        ELSE {}

\* trash::delete fails on a path that does not exist
TrashOutcomes(a, d) ==
    LET entry == delete_target(a)
    IN  {FALSE} \cup IF IsSome(entry) /\ Unwrap(entry).path \in d
                     THEN {TRUE} ELSE {}

NoKey == Key("", FALSE)

NoMouse == Mouse("", 0)

Ev(type, key, mouse) == [type |-> type, key |-> key, mouse |-> mouse]

advance(dt) == Min(elapsed + dt, RESYNC_SECS)

-----------------------------------------------------------------------------
(* ws: the processes that run toggle_layout and the tmux sessions they run *)
(* in.  texplore starts with none of them running and no lock file.        *)

\* the most processes that run toggle_layout at the same time
MaxProcs == 3

Procs == 1..MaxProcs

\* get_current_session: the names of the tmux sessions
Sessions == {"main", "work"}

\* a process that has not started toggle_layout, or has returned from it
NotRunning == [pc |-> "exit", session |-> "none"]

-----------------------------------------------------------------------------
(* The event loop of main.  The actions take the sets their inputs are     *)
(* drawn from: statuses (the status indexes a query may return), steps     *)
(* (the seconds that may pass while an event is awaited and handled),      *)
(* outputs (the texts the pretty-printer may print).                       *)

\* main up to the loop, in a terminal of some height and width, with or
\* without NO_COLOR in the environment
Launch(statuses, heights, widths, no_colors) ==
    /\ disk = AllPaths
    /\ unreadable = {}
    /\ \E run \in statuses :
          \E gs \in {load_git_status(RootPath, run)},
             gitignore \in {build_gitignore(RootPath, run, disk)} :
              \E tree \in {build_tree(gitignore, gs, disk, unreadable)} :
                  /\ tree.ok
                  /\ app = new_app(tree.node, gitignore, gs)
                  /\ git_call = Some(run)
    /\ term_height \in heights
    /\ term_width \in widths
    /\ no_color \in no_colors
    /\ tree_widget = None
    /\ has_focus = TRUE
    /\ elapsed = 0
    /\ event = Ev("none", NoKey, NoMouse)
    /\ trash_call = None
    /\ bat_call = None
    /\ pc = "draw"
    /\ lock_files = [s \in Sessions |-> None]
    /\ toggles = [p \in Procs |-> NotRunning]

\* main started in a terminal 48 columns wide, NO_COLOR not set
Start(statuses, heights) == Launch(statuses, heights, {48}, {FALSE})

\* app.refresh_visible(); terminal.draw(|frame| render(frame, &mut app))
Draw ==
    /\ pc = "draw"
    /\ \E a \in {render(refresh_visible(app), term_height)} :
          /\ app' = a
          /\ tree_widget' = tree_lines(a, term_height, should_color,
                                       term_width)
    /\ event' = Ev("none", NoKey, NoMouse)
    /\ trash_call' = None
    /\ bat_call' = None
    /\ git_call' = None
    /\ pc' = "poll"
    /\ UNCHANGED <<disk, unreadable, term_height, term_width, no_color,
                   has_focus, elapsed>>
    /\ UNCHANGED <<lock_files, toggles>>

\* event::poll times out: no event in this iteration
Timeout(steps) ==
    /\ pc = "poll"
    /\ \E dt \in steps : elapsed' = advance(dt)
    /\ event' = Ev("none", NoKey, NoMouse)
    /\ trash_call' = None
    /\ bat_call' = None
    /\ git_call' = None
    /\ tree_widget' = None
    /\ pc' = "timer"
    /\ UNCHANGED <<app, disk, unreadable, term_height, term_width, no_color,
                   has_focus>>
    /\ UNCHANGED <<lock_files, toggles>>

\* Event::Key with `q` in Browsing: handle_key returns true, the loop breaks
Quit ==
    /\ pc = "poll"
    /\ app.viewer = None
    /\ event' = Ev("key", Key("q", FALSE), NoMouse)
    /\ trash_call' = None
    /\ bat_call' = None
    /\ git_call' = None
    /\ tree_widget' = None
    /\ pc' = "exit"
    /\ UNCHANGED <<app, disk, unreadable, term_height, term_width, no_color,
                   has_focus, elapsed>>
    /\ UNCHANGED <<lock_files, toggles>>

\* Event::Key in Browsing, any key but `q`
BrowseKey(key, steps, outputs) ==
    /\ pc = "poll"
    /\ app.viewer = None
    /\ key.code # "q"
    /\ \E tool_ok \in IF key.code \in {"C", "N"} THEN BOOLEAN ELSE {TRUE},
          bat \in IF key.code \in {"o", "Enter"}
                  THEN BatOutcomes(app, disk, outputs) ELSE {BatFailed},
          trash_ok \in IF key.code = "y"
                       THEN TrashOutcomes(app, disk) ELSE {FALSE} :
          LET target == IF key.code = "y" THEN delete_target(app) ELSE None
              shown == IF key.code \in {"o", "Enter"}
                       THEN bat_target(app, disk) ELSE None
          IN  /\ app' = handle_key(app, key, disk, unreadable, tool_ok, bat,
                                   trash_ok)
              /\ trash_call' = IF IsSome(target)
                               THEN Some([path |-> Unwrap(target).path,
                                          ok |-> trash_ok])
                               ELSE None
              /\ bat_call' = IF IsSome(shown)
                             THEN Some([path |-> Unwrap(shown).path,
                                        ok |-> bat.ok,
                                        stdout |-> bat.stdout])
                             ELSE None
              /\ disk' = IF IsSome(target) /\ trash_ok
                         THEN trash_delete(Unwrap(target).path, disk)
                         ELSE disk
    /\ \E dt \in steps : elapsed' = advance(dt)
    /\ event' = Ev("key", key, NoMouse)
    /\ git_call' = None
    /\ tree_widget' = None
    /\ pc' = "timer"
    /\ UNCHANGED <<unreadable, term_height, term_width, no_color, has_focus>>
    /\ UNCHANGED <<lock_files, toggles>>

\* Event::Key while the viewer is open
ViewerKey(key, steps) ==
    /\ pc = "poll"
    /\ IsSome(app.viewer)
    /\ app' = handle_viewer_key(app, key, term_height)
    /\ \E dt \in steps : elapsed' = advance(dt)
    /\ event' = Ev("key", key, NoMouse)
    /\ trash_call' = None
    /\ bat_call' = None
    /\ git_call' = None
    /\ tree_widget' = None
    /\ pc' = "timer"
    /\ UNCHANGED <<disk, unreadable, term_height, term_width, no_color,
                   has_focus>>
    /\ UNCHANGED <<lock_files, toggles>>

\* Event::Mouse: handled only while the terminal has the focus
MouseEvent(mouse, steps, outputs) ==
    /\ pc = "poll"
    /\ \E quick \in IF mouse.kind = "Left" /\ IsSome(app.last_click)
                      THEN BOOLEAN ELSE {FALSE} :
          LET shown == IF has_focus /\ mouse.kind = "Left"
                       THEN double_click_target(app, mouse.row, term_height,
                                                disk, quick)
                       ELSE None
          IN  \E bat \in IF IsSome(shown)
                          THEN BatOutcomes([app EXCEPT !.focus =
                                              app.scroll + mouse.row - 1],
                                           disk, outputs)
                          ELSE {BatFailed} :
                /\ app' = IF has_focus
                          THEN handle_mouse(app, mouse, term_height, disk,
                                            unreadable, quick, bat)
                          ELSE app
                /\ bat_call' = IF IsSome(shown)
                               THEN Some([path |-> Unwrap(shown).path,
                                          ok |-> bat.ok,
                                          stdout |-> bat.stdout])
                               ELSE None
    /\ \E dt \in steps : elapsed' = advance(dt)
    /\ event' = Ev("mouse", NoKey, mouse)
    /\ trash_call' = None
    /\ git_call' = None
    /\ tree_widget' = None
    /\ pc' = "timer"
    /\ UNCHANGED <<disk, unreadable, term_height, term_width, no_color,
                   has_focus>>
    /\ UNCHANGED <<lock_files, toggles>>

\* Event::FocusLost
FocusLost(steps) ==
    /\ pc = "poll"
    /\ has_focus' = FALSE
    /\ \E dt \in steps : elapsed' = advance(dt)
    /\ event' = Ev("focus_lost", NoKey, NoMouse)
    /\ trash_call' = None
    /\ bat_call' = None
    /\ git_call' = None
    /\ tree_widget' = None
    /\ pc' = "timer"
    /\ UNCHANGED <<app, disk, unreadable, term_height, term_width, no_color>>
    /\ UNCHANGED <<lock_files, toggles>>

\* Event::FocusGained: resync, last_refresh = Instant::now(); an error of
\* resync leaves main through the `?`
FocusGained(statuses) ==
    /\ pc = "poll"
    /\ has_focus' = TRUE
    /\ \E run \in statuses :
          \E gs \in {load_git_status(RootPath, run)},
             gitignore \in {build_gitignore(RootPath, run, disk)} :
              \E r \in {resync_with(app, gitignore, gs, disk, unreadable)} :
                  /\ app' = r.app
                  /\ pc' = IF r.ok THEN "timer" ELSE "exit"
                  /\ elapsed' = IF r.ok THEN 0 ELSE elapsed
                  /\ git_call' = Some(run)
                  /\ tree_widget' = None
    /\ event' = Ev("focus_gained", NoKey, NoMouse)
    /\ trash_call' = None
    /\ bat_call' = None
    /\ UNCHANGED <<disk, unreadable, term_height, term_width, no_color>>
    /\ UNCHANGED <<lock_files, toggles>>

\* Event::Resize: the `_ => {}` arm; the next draw sees the new size
Resize(height, steps) ==
    /\ pc = "poll"
    /\ height # term_height
    /\ term_height' = height
    /\ \E dt \in steps : elapsed' = advance(dt)
    /\ event' = Ev("resize", NoKey, NoMouse)
    /\ trash_call' = None
    /\ bat_call' = None
    /\ git_call' = None
    /\ tree_widget' = None
    /\ pc' = "timer"
    /\ UNCHANGED <<app, disk, unreadable, has_focus, term_width, no_color>>
    /\ UNCHANGED <<lock_files, toggles>>

\* the end of an iteration without the periodic resync
Timer_never_due(statuses) ==
    /\ pc = "timer"
    /\ pc' = "draw"
    /\ UNCHANGED <<app, elapsed, disk, unreadable, term_height, term_width,
                   no_color, has_focus, event, trash_call, bat_call, git_call,
                   tree_widget>>
    /\ UNCHANGED <<lock_files, toggles>>

\* the end of an iteration: the periodic resync when it is due
Timer(statuses) ==
    /\ pc = "timer"
    /\ IF elapsed >= RESYNC_SECS
       THEN \E run \in statuses :
              \E gs \in {load_git_status(RootPath, run)},
                 gitignore \in {build_gitignore(RootPath, run, disk)} :
                  \E r \in {resync_with(app, gitignore, gs, disk,
                                        unreadable)} :
                      /\ app' = r.app
                      /\ pc' = IF r.ok THEN "draw" ELSE "exit"
                      /\ elapsed' = IF r.ok THEN 0 ELSE elapsed
                      /\ git_call' = Some(run)
                      /\ tree_widget' = None
       ELSE /\ pc' = "draw"
            /\ UNCHANGED <<app, elapsed, git_call, tree_widget>>
    /\ UNCHANGED <<disk, unreadable, term_height, term_width, no_color,
                   has_focus, event, trash_call, bat_call>>
    /\ UNCHANGED <<lock_files, toggles>>

-----------------------------------------------------------------------------
(* Browsing: the tree, the focus and the delete flow under key events and  *)
(* resyncs, on a machine where the pretty-printer is not installed.        *)

BrowseKeys ==
    { Key(c, FALSE) : c \in { "j", "k", "g", "h", "l", "d", "y", "Enter",
                              "Esc" } }
    \cup { Key("g", TRUE), Key("G", TRUE) }

BrowseStatuses ==
    { GitStatusOf(changed) :
        changed \in { {}, {RootPath \o <<Name_a, Name_b, Name_c>>},
                      {RootPath \o <<Name_a, Name_b, Name_c>>, RootPath \o <<Name_B>>} } }

BrowseSteps == {0, RESYNC_SECS}

Init == Start(BrowseStatuses, {MaxHeight})

Next ==
    \/ Draw
    \/ Quit
    \/ \E key \in BrowseKeys : BrowseKey(key, BrowseSteps, {})
    \/ FocusGained(BrowseStatuses)
    \/ Timer(BrowseStatuses)

Spec == Init /\ [][Next]_vars

-----------------------------------------------------------------------------
(* The viewer: a file is opened from a clean tree and scrolled with keys   *)
(* and the wheel while the terminal is resized.                            *)

ViewerOpenKeys == { Key(c, FALSE) : c \in { "j", "k", "o", "Enter" } }

ViewerKeys ==
    { Key(c, FALSE) : c \in { "q", "Esc", "j", "k", "g", "d", "y", "x" } }
    \cup { Key("g", TRUE), Key("G", TRUE) }

WheelEvents == { Mouse(k, 0) : k \in {"ScrollDown", "ScrollUp"} }

CleanStatus == { GitStatusOf({}) }

InitViewer == Start(CleanStatus, Heights)

NextViewer ==
    \/ Draw
    \/ \E key \in ViewerOpenKeys : BrowseKey(key, {0}, PlainTexts)
    \/ \E key \in ViewerKeys : ViewerKey(key, {0})
    \/ \E mouse \in WheelEvents : MouseEvent(mouse, {0}, {})
    \/ \E height \in Heights : Resize(height, {0})
    \/ Timer(CleanStatus)

SpecViewer == InitViewer /\ [][NextViewer]_vars

-----------------------------------------------------------------------------
(* Pointing: keys, clicks and the wheel on a tree that is resynced when    *)
(* the terminal regains the focus; a file opens in the viewer.             *)

MouseKeys ==
    { Key(c, FALSE) : c \in { "j", "d", "y", "o", "Enter", "Esc" } }

\* left clicks on every row of the terminal, the wheel, the right button
MouseEvents ==
    { Mouse("Left", row) : row \in 0..(MaxHeight - 1) }
    \cup { Mouse(k, 1) : k \in {"ScrollDown", "ScrollUp", "Right"} }

MouseStatuses == { GitStatusOf({<<Name_r, Name_B>>}) }

OneLine == { PlainText(1) }

InitMouse == Start(MouseStatuses, {MaxHeight})

NextMouse ==
    \/ Draw
    \/ \E key \in MouseKeys : BrowseKey(key, {0}, OneLine)
    \/ ViewerKey(Key("q", FALSE), {0})
    \/ \E mouse \in MouseEvents : MouseEvent(mouse, {0}, OneLine)
    \/ FocusLost({0})
    \/ FocusGained(MouseStatuses)
    \/ Timer(MouseStatuses)

SpecMouse == InitMouse /\ [][NextMouse]_vars

-----------------------------------------------------------------------------
(* The loop and its clock: events and timeouts that take 0, 15 or 30       *)
(* seconds, with the focus of the terminal lost and regained.              *)

LoopKeys == { Key(c, FALSE) : c \in { "j", "l" } }

LoopSteps == { 0, RESYNC_SECS \div 2, RESYNC_SECS }

LoopStatuses == { GitStatusOf({}), GitStatusOf({<<Name_r, Name_B>>}) }

InitLoop == Start(LoopStatuses, {MaxHeight})

NextLoop ==
    \/ Draw
    \/ Timeout(LoopSteps)
    \/ Quit
    \/ \E key \in LoopKeys : BrowseKey(key, LoopSteps, {})
    \/ \E mouse \in WheelEvents : MouseEvent(mouse, LoopSteps, {})
    \/ FocusLost(LoopSteps)
    \/ FocusGained(LoopStatuses)
    \/ Timer(LoopStatuses)

SpecLoop == InitLoop /\ [][NextLoop]_vars

-----------------------------------------------------------------------------
(* A file system that other processes change while texplore runs.          *)

\* another process removes a path with all beneath it, or takes away the
\* permission to list a directory
FsChange(paths) ==
    /\ pc = "poll"
    /\ \E p \in paths :
          \/ /\ p \in disk
             /\ disk' = trash_delete(p, disk)
             /\ UNCHANGED unreadable
          \/ /\ p \in disk /\ p \in DirPaths /\ p \notin unreadable
             /\ unreadable' = unreadable \cup {p}
             /\ UNCHANGED disk
    /\ UNCHANGED <<app, term_height, term_width, no_color, has_focus, elapsed,
                   event, trash_call, bat_call, git_call, tree_widget, pc>>
    /\ UNCHANGED <<lock_files, toggles>>

FsKeys == { Key(c, FALSE) : c \in { "j", "l", "h" } }

FsStatuses ==
    { GitStatusOf({}), GitStatusOf({<<Name_r, Name_a, Name_b, Name_c>>}) }

InitFs == Start(FsStatuses, {MaxHeight})

NextFs ==
    \/ Draw
    \/ Timeout(BrowseSteps)
    \/ \E key \in FsKeys : BrowseKey(key, BrowseSteps, {})
    \/ FsChange(AllPaths)
    \/ FocusGained(FsStatuses)
    \/ Timer(FsStatuses)

SpecFs == InitFs /\ [][NextFs]_vars

-----------------------------------------------------------------------------
(* The adapter at work: a file is opened and the pretty-printer prints     *)
(* text with escape sequences.                                             *)

RECURSIVE join_params(_)
join_params(params) ==
    IF params = <<>> THEN <<>>
    ELSE IF Len(params) = 1 THEN to_digits(params[1])
    ELSE to_digits(params[1]) \o <<Semicolon>> \o join_params(Tail(params))

\* the escape sequence ESC [ p1 ; p2 ; ... m
Sgr(params) == <<ESC, LBracket>> \o join_params(params) \o <<LetterM>>

TextOK == <<79, 75>>

TextPlain == <<32, 112, 108, 97, 105, 110>>

TextX == <<88>>

\* at most MaxTokens pieces make a text
MaxTokens == 4

Tokens ==
    { TextOK, TextPlain, <<LF>>, Sgr(<<1, 32>>), Sgr(<<0>>), Sgr(<<4>>) }

RECURSIVE concat(_)
concat(pieces) ==
    IF pieces = <<>> THEN <<>> ELSE Head(pieces) \o concat(Tail(pieces))

TokenTexts ==
    { concat(pieces) :
        pieces \in UNION { [1..n -> Tokens] : n \in 1..MaxTokens } }

\* the parameters of an extended colour: 5;N or 2;R;G;B
ColourParams == { <<5, 200>>, <<5, 1>>, <<2, 10, 20, 30>>, <<2, 4, 0, 255>> }

\* 38 or 48, a colour, and perhaps one more code (bold or underline), then X
ColourTexts ==
    { Sgr(<<k>> \o c \o more) \o TextX :
        k \in {38, 48}, c \in ColourParams, more \in {<<>>, <<1>>, <<4>>} }

\* the codes of the match of apply_sgr that take no further parameter
SupportedCodes ==
    {0, 1, 2, 3, 4, 22, 23, 24, 39, 49}
        \cup (30..37) \cup (90..97) \cup (40..47) \cup (100..107)

\* codes that fall to the last arm of the match
OtherCodes == {5, 29, 50, 98, 108}

\* one sequence of two codes, then X
CodeTexts ==
    { Sgr(<<c1, c2>>) \o TextX :
        c1 \in SupportedCodes \cup OtherCodes,
        c2 \in SupportedCodes \cup OtherCodes }

\* parameters as they are written, ; between them
RECURSIVE join_parts(_)
join_parts(parts) ==
    IF parts = <<>> THEN <<>>
    ELSE IF Len(parts) = 1 THEN Head(parts)
    ELSE Head(parts) \o <<Semicolon>> \o join_parts(Tail(parts))

\* the escape sequence ESC [ part ; part ; ... m of written parameters
RawSgr(parts) == <<ESC, LBracket>> \o join_parts(parts) \o <<LetterM>>

\* colour components on both sides of 255, up to the largest u16
WideValues == {0, 255, 256, 300, 65535}

WideTriples == { <<256, 511, 65535>>, <<0, 255, 300>> }

\* parameters that are no u16: 65536, x, -1 and the empty parameter
BadParts == { to_digits(65536), <<120>>, <<45, 49>>, <<>> }

\* nothing, or one parameter that is no u16
BadRuns == { <<>> } \cup { <<b>> : b \in BadParts }

\* 38 or 48 with the selector 5 or 2, perhaps a parameter that is no u16,
\* and the components, then X
WideTexts ==
    { RawSgr(<<to_digits(k), to_digits(5)>> \o bad \o <<to_digits(n)>>)
        \o TextX : k \in {38, 48}, bad \in BadRuns, n \in WideValues }
    \cup
    { RawSgr(<<to_digits(k), to_digits(2)>> \o bad
             \o <<to_digits(t[1]), to_digits(t[2]), to_digits(t[3])>>)
        \o TextX : k \in {38, 48}, bad \in BadRuns, t \in WideTriples }

\* what may stand behind 38 or 48 and is no colour: a selector that is
\* neither 5 nor 2, or a selector with too few parameters
MalformedParams ==
    { <<>>, <<5>>, <<2>>, <<2, 1>>, <<2, 1, 4>>, <<3, 1>>, <<7>>, <<7, 4>> }

\* perhaps a red foreground first, then 38 or 48 with such parameters, then
\* X
MalformedTexts ==
    { before \o Sgr(<<k>> \o rest) \o TextX :
        before \in { <<>>, Sgr(<<31>>) }, k \in {38, 48},
        rest \in MalformedParams }

AnsiTexts ==
    TokenTexts \cup ColourTexts \cup CodeTexts \cup WideTexts
        \cup MalformedTexts

AnsiKeys == { Key(c, FALSE) : c \in { "j", "o" } }

InitAnsi == Start(CleanStatus, {MaxHeight})

NextAnsi ==
    \/ Draw
    \/ \E key \in AnsiKeys : BrowseKey(key, {0}, AnsiTexts)
    \/ ViewerKey(Key("q", FALSE), {0})
    \/ Timer(CleanStatus)

SpecAnsi == InitAnsi /\ [][NextAnsi]_vars

-----------------------------------------------------------------------------
(* The repository: the tools fail or answer with status records inside    *)
(* and outside the explored root, and ignore files appear in the tree.     *)

Name_o == <<111>>

Name_p == <<112>>

\* the most status records the porcelain output has
MaxRecords == 2

\* a status record: the two letters, the path and, for a rename, the path
\* the file had before (orig)
StatusRecord(code, path, orig) == [code |-> code, path |-> path, orig |-> orig]

\* an untracked file and a renamed file under the explored root; a staged
\* file and a file changed in index and work tree outside of it
StatusRecords ==
    { StatusRecord(Untracked, RootPath \o <<Name_B>>, None),
      StatusRecord(<<82, 32>>, RootPath \o <<Name_a, Name_b, Name_c>>,
                   Some(RootPath \o <<Name_a, Name_o>>)),
      StatusRecord(<<77, 32>>, <<Name_o>>, None),
      StatusRecord(<<77, 77>>, <<Name_p>>, None) }

\* the records of a repository whose top level is git_root, MaxRecords at most
RecordLists(git_root) ==
    { set_to_seq(records) :
        records \in { c \in SUBSET { rec \in StatusRecords :
                                       starts_with(rec.path, git_root) } :
                        Cardinality(c) <= MaxRecords } }

\* the output of `git status --porcelain -z` for the records
RECURSIVE porcelain_z(_, _)
porcelain_z(git_root, records) ==
    IF records = <<>> THEN <<>>
    ELSE porcelain_record(
           Head(records).code,
           strip_prefix(Head(records).path, git_root),
           IF Head(records).orig = None THEN None
           ELSE Some(strip_prefix(Unwrap(Head(records).orig), git_root)))
         \o porcelain_z(git_root, Tail(records))

\* `## m...o/m [ahead 2, behind 13]` and a second line
AheadBehindText ==
    <<35, 35, 32, 109, 46, 46, 46, 111, 47, 109, 32, 91>> \o AheadPrefix
    \o <<50, 44, 32>> \o BehindPrefix \o <<49, 51, 93, LF, 32, 77, LF>>

\* the top levels the explored root may have: none, / and the root itself
Toplevels == { None, Some(<<>>), Some(RootPath) }

\* the directory the paths of the status records are relative to
git_root_of(toplevel) == IF toplevel = None THEN <<>> ELSE Unwrap(toplevel)

\* the tools fail or answer with the records of the repository
StatusRuns ==
    UNION { { [ toplevel |-> t, porcelain |-> out, sb |-> sb,
                compiles |-> TRUE ] :
                out \in {None} \cup
                        { Some(porcelain_z(git_root_of(t), records)) :
                            records \in RecordLists(git_root_of(t)) },
                sb \in { None, Some(AheadBehindText) } } :
            t \in Toplevels }

\* a clean work tree whose matcher builds or fails to
IgnoreRuns ==
    { [ toplevel |-> t, porcelain |-> Some(<<>>), sb |-> Some(BranchLine),
        compiles |-> c ] : t \in Toplevels, c \in BOOLEAN }

GitRuns == StatusRuns \cup IgnoreRuns

\* an ignore file is written into a directory of the tree
FsWrite(dirs) ==
    /\ pc = "poll"
    /\ \E dir \in dirs :
          /\ dir \in disk
          /\ dir \o <<DotGitignore>> \notin disk
          /\ disk' = disk \cup { dir \o <<DotGitignore>> }
    /\ UNCHANGED <<app, unreadable, term_height, term_width, no_color,
                   has_focus, elapsed, event, trash_call, bat_call, git_call,
                   tree_widget, pc>>
    /\ UNCHANGED <<lock_files, toggles>>

GitKeys == { Key(c, FALSE) : c \in { "j", "h" } }

InitGit == Start(GitRuns, {MaxHeight})

NextGit ==
    \/ Draw
    \/ \E key \in GitKeys : BrowseKey(key, {0}, {})
    \/ FsWrite({ RootPath, RootPath \o <<Name_a>> })
    \/ FocusGained(IgnoreRuns)
    \/ Timer(IgnoreRuns)

SpecGit == InitGit /\ [][NextGit]_vars

-----------------------------------------------------------------------------
(* The rows of the tree in terminals of two widths, with and without       *)
(* NO_COLOR in the environment.                                            *)

Widths == {30, 48}

RenderKeys == { Key(c, FALSE) : c \in { "j", "k", "l", "h" } }

RenderStatuses ==
    { GitStatusOf(changed) :
        changed \in { {}, {RootPath \o <<Name_a, Name_b, Name_c>>},
                      {RootPath \o <<Name_B>>} } }

InitRender == Launch(RenderStatuses, {MaxHeight}, Widths, BOOLEAN)

NextRender ==
    \/ Draw
    \/ \E key \in RenderKeys : BrowseKey(key, {0}, {})
    \/ Timer(RenderStatuses)

SpecRender == InitRender /\ [][NextRender]_vars

-----------------------------------------------------------------------------
(* ws: the layout lock (src/ws/src/tmux.rs).  Each process runs            *)
(* toggle_layout once at a time; a step of a process is one call on the    *)
(* file system, so the calls of different processes interleave.  A lock    *)
(* file is its age in seconds, which is now minus its modification time.   *)

\* Duration::from_secs(5): a lock file older than this is stale
STALE_SECS == 5

\* toggle_layout up to acquire_layout_lock, in one of the sessions
toggle_layout(p) ==
    /\ toggles[p].pc = "exit"
    /\ \E session \in Sessions :
          toggles' = [toggles EXCEPT ![p] = [pc |-> "create",
                                             session |-> session]]
    /\ UNCHANGED lock_files
    /\ UNCHANGED texplore_vars

\* OpenOptions::new().write(true).create_new(true).open(&lock_path): the
\* lock is acquired when this creates the file
create_new(p) ==
    /\ toggles[p].pc = "create"
    /\ IF lock_files[toggles[p].session] = None
       THEN /\ lock_files' = [lock_files EXCEPT
                                 ![toggles[p].session] = Some(0)]
            /\ toggles' = [toggles EXCEPT ![p].pc = "locked"]
       ELSE /\ toggles' = [toggles EXCEPT ![p].pc = "metadata"]
            /\ UNCHANGED lock_files
    /\ UNCHANGED texplore_vars

\* fs::metadata(&lock_path) and the comparison of the age with 5 seconds;
\* a file that is gone, or one that is not stale, ends the attempt
metadata(p) ==
    /\ toggles[p].pc = "metadata"
    /\ toggles' =
          IF /\ IsSome(lock_files[toggles[p].session])
             /\ Unwrap(lock_files[toggles[p].session]) > STALE_SECS
          THEN [toggles EXCEPT ![p].pc = "remove"]
          ELSE [toggles EXCEPT ![p] = NotRunning]
    /\ UNCHANGED lock_files
    /\ UNCHANGED texplore_vars

\* let _ = fs::remove_file(&lock_path) of the stale branch
remove_file(p) ==
    /\ toggles[p].pc = "remove"
    /\ lock_files' = [lock_files EXCEPT ![toggles[p].session] = None]
    /\ toggles' = [toggles EXCEPT ![p].pc = "retry"]
    /\ UNCHANGED texplore_vars

\* the second create_new, after the stale file was removed
retry_create_new(p) ==
    /\ toggles[p].pc = "retry"
    /\ IF lock_files[toggles[p].session] = None
       THEN /\ lock_files' = [lock_files EXCEPT
                                 ![toggles[p].session] = Some(0)]
            /\ toggles' = [toggles EXCEPT ![p].pc = "locked"]
       ELSE /\ toggles' = [toggles EXCEPT ![p] = NotRunning]
            /\ UNCHANGED lock_files
    /\ UNCHANGED texplore_vars

\* the rest of toggle_layout and LockGuard::drop: release_layout_lock
\* removes whatever file has the session's name
release_layout_lock(p) ==
    /\ toggles[p].pc = "locked"
    /\ lock_files' = [lock_files EXCEPT ![toggles[p].session] = None]
    /\ toggles' = [toggles EXCEPT ![p] = NotRunning]
    /\ UNCHANGED texplore_vars

\* the process is killed while it holds the lock: drop does not run and the
\* file stays, which is what the stale rule is for
killed(p) ==
    /\ toggles[p].pc = "locked"
    /\ toggles' = [toggles EXCEPT ![p] = NotRunning]
    /\ UNCHANGED lock_files
    /\ UNCHANGED texplore_vars

\* a second passes: SystemTime::now() moves away from every file's time
second_passes ==
    /\ \E s \in Sessions :
          IsSome(lock_files[s]) /\ Unwrap(lock_files[s]) <= STALE_SECS
    /\ lock_files' =
          [s \in Sessions |->
              IF IsSome(lock_files[s])
              THEN Some(Min(Unwrap(lock_files[s]) + 1, STALE_SECS + 1))
              ELSE None]
    /\ UNCHANGED toggles
    /\ UNCHANGED texplore_vars

InitLock == Launch(CleanStatus, {MaxHeight}, {48}, {FALSE})

NextLock ==
    \/ \E p \in Procs : toggle_layout(p)
    \/ \E p \in Procs : create_new(p)
    \/ \E p \in Procs : metadata(p)
    \/ \E p \in Procs : remove_file(p)
    \/ \E p \in Procs : retry_create_new(p)
    \/ \E p \in Procs : release_layout_lock(p)
    \/ \E p \in Procs : killed(p)
    \/ second_passes

SpecLock == InitLock /\ [][NextLock]_vars

-----------------------------------------------------------------------------
(* Browsing and Viewing in turn: a delete is armed, a file is opened, keys *)
(* of both states are pressed while the viewer is open, and `q` is pressed *)
(* in either state.                                                        *)

ModalBrowseKeys == { Key(c, FALSE) : c \in { "j", "d", "y", "o", "Esc" } }

ModalViewerKeys ==
    { Key(c, FALSE) :
        c \in { "q", "Esc", "j", "k", "g", "h", "l", "d", "y", "o", "Enter",
                "C", "N" } }
    \cup { Key("g", TRUE) }

InitModal == Start(CleanStatus, {MaxHeight})

NextModal ==
    \/ Draw
    \/ Quit
    \/ \E key \in ModalBrowseKeys : BrowseKey(key, {0}, OneLine)
    \/ \E key \in ModalViewerKeys : ViewerKey(key, {0})
    \/ Timer(CleanStatus)

SpecModal == InitModal /\ [][NextModal]_vars

-----------------------------------------------------------------------------
(* Resyncs between the user's own moves: directories are expanded by hand, *)
(* a delete is armed, a file is opened, and the status index that comes    *)
(* back differs from one resync to the next.                               *)

ResyncKeys == { Key(c, FALSE) : c \in { "j", "k", "l", "d", "o" } }

\* nothing changed, a file deep in the tree, a file of the root, or a
\* directory that is itself an entry of the index
ResyncStatuses ==
    { GitStatusOf(changed) :
        changed \in { {}, {RootPath \o <<Name_a, Name_b, Name_c>>},
                      {RootPath \o <<Name_B>>},
                      {RootPath \o <<Name_a, Name_b>>} } }

InitResync == Start(ResyncStatuses, {MaxHeight})

NextResync ==
    \/ Draw
    \/ \E key \in ResyncKeys : BrowseKey(key, BrowseSteps, OneLine)
    \/ ViewerKey(Key("q", FALSE), BrowseSteps)
    \/ FocusGained(ResyncStatuses)
    \/ Timer(ResyncStatuses)

SpecResync == InitResync /\ [][NextResync]_vars

-----------------------------------------------------------------------------
(* Properties of the tree, the flattener and Browsing, checked under Spec  *)

\* every node of a tree
RECURSIVE Nodes(_)
Nodes(node) ==
    {node} \cup
    IF IsSome(node.children)
    THEN UNION { Nodes(Unwrap(node.children)[i]) :
                    i \in 1..Len(Unwrap(node.children)) }
    ELSE {}

PathsOf(node) == { n.path : n \in Nodes(node) }

NodeByPath(node, path) == CHOOSE n \in Nodes(node) : n.path = path

VisiblePaths(vis) == { vis[i].path : i \in 1..Len(vis) }

\* a key event is being handled in Browsing
BrowsingKeyStep(code, shift) ==
    /\ pc = "poll"
    /\ app.viewer = None
    /\ event'.type = "key"
    /\ event'.key = Key(code, shift)

\* C1: in every reachable state every directory whose children are loaded
\* has a subtree-change count equal to the sum of its children's counts, and
\* every file has count 1 if its status code is non-blank and 0 otherwise.
C1_CountsAreSums ==
    \A n \in Nodes(app.root) :
        /\ (n.is_dir /\ IsSome(n.children))
              => n.subtree_changes = sum_changes(Unwrap(n.children))
        /\ ~n.is_dir
              => n.subtree_changes = IF trim_is_empty(n.status) THEN 0 ELSE 1

\* C2: when `y` confirms the delete that `d` armed (the prompt on the status
\* line names the node) and the trash operation succeeds, exactly the
\* subtree of that node leaves the tree, the node leaves its parent's child
\* list, and the count of every ancestor directory is decreased by the
\* removed node's count.
C2_DeleteDecrementsAncestors ==
    [][ ( /\ BrowsingKeyStep("y", FALSE)
          /\ IsSome(trash_call')
          /\ Unwrap(trash_call').ok
          /\ app.status = Msg("Delete {}? y to confirm, Esc to cancel",
                              NodeByPath(app.root, Unwrap(trash_call').path).name) )
        => LET path == Unwrap(trash_call').path
               gone == NodeByPath(app.root, path)
               was == Unwrap(NodeByPath(app.root, parent(path)).children)
               now == Unwrap(NodeByPath(app'.root, parent(path)).children)
           IN  /\ PathsOf(app'.root) = PathsOf(app.root) \ PathsOf(gone)
               /\ Len(now) = Len(was) - 1
               /\ \A q \in PathsOf(app'.root) :
                    (q # path /\ starts_with(path, q))
                       => NodeByPath(app'.root, q).subtree_changes
                          = NodeByPath(app.root, q).subtree_changes
                            - gone.subtree_changes ]_vars

\* C3: `d` and `Esc` in Browsing leave the tree as it is (same nodes, child
\* lists, expanded flags and counts) and call no trash operation, and `Esc`
\* leaves pending_delete disarmed.
C3_PromptAndCancelKeepTree ==
    [][ (BrowsingKeyStep("d", FALSE) \/ BrowsingKeyStep("Esc", FALSE))
        => /\ app'.root = app.root
           /\ disk' = disk
           /\ trash_call' = None
           /\ BrowsingKeyStep("Esc", FALSE) => app'.pending_delete = None ]_vars

\* `Esc` has just cancelled a delete that `d` had armed
C3_Witness ==
    /\ pc = "timer"
    /\ event.key = Key("Esc", FALSE)
    /\ app.status = Msg("delete canceled", <<>>)
    /\ app.pending_delete = None

\* the index paths of the nodes reached from the root through directories
\* that are expanded and loaded
RECURSIVE ShownIndexPaths(_)
ShownIndexPaths(node) ==
    {<<>>} \cup
    IF node.is_dir /\ node.expanded /\ IsSome(node.children)
    THEN UNION { { <<i - 1>> \o ip :
                      ip \in ShownIndexPaths(Unwrap(node.children)[i]) } :
                 i \in 1..Len(Unwrap(node.children)) }
    ELSE {}

\* pre-order on index paths: a parent before its children, children in
\* child-list order
RECURSIVE IndexPathBefore(_, _)
IndexPathBefore(s, t) ==
    IF s = <<>> THEN t # <<>>
    ELSE IF t = <<>> THEN FALSE
    ELSE IF Head(s) # Head(t) THEN Head(s) < Head(t)
    ELSE IndexPathBefore(Tail(s), Tail(t))

\* C4: after refresh_visible the visible list is the pre-order traversal
\* of the nodes reached through expanded, loaded directories: each appears
\* once, a parent before its children, children in child-list order, and
\* nothing beneath a collapsed or unloaded directory appears.
C4_VisibleIsPreorder ==
    pc = "poll" =>
        LET vis == app.visible
        IN  /\ { vis[i].indices : i \in 1..Len(vis) } = ShownIndexPaths(app.root)
            /\ \A i, j \in 1..Len(vis) :
                  i < j => IndexPathBefore(vis[i].indices, vis[j].indices)
            /\ \A i \in 1..Len(vis) :
                  node_at(app.root, vis[i].indices)
                     = Some(NodeByPath(app.root, vis[i].path))

\* a collapsed directory with loaded children hides them from a list that
\* shows other nested rows
C4_Witness ==
    /\ pc = "poll"
    /\ Len(app.visible) >= 3
    /\ \E n \in Nodes(app.root) :
          /\ n.is_dir /\ ~n.expanded /\ IsSome(n.children)
          /\ Unwrap(n.children) # <<>>
          /\ n.path \in VisiblePaths(app.visible)

\* C5: a second refresh_visible on the state the first one left returns the
\* same visible list and changes neither focus nor pending_delete.
C5_RefreshIsRepeatable ==
    pc = "poll" =>
        LET again == refresh_visible(app)
        IN  /\ again.visible = app.visible
            /\ again.focus = app.focus
            /\ again.pending_delete = app.pending_delete

C5_Witness ==
    /\ pc = "poll"
    /\ Len(app.visible) >= 3
    /\ IsSome(app.pending_delete)
    /\ app.focus > 0

\* a tree has just been built: by main at start-up (the first draw), by the
\* resync of a focus-gained event or by the periodic resync
TreeWasBuilt ==
    \/ pc = "draw" /\ app.visible = <<>> /\ pc' = "poll"
    \/ pc = "poll" /\ event'.type = "focus_gained" /\ pc' = "timer"
    \/ pc = "timer" /\ elapsed >= RESYNC_SECS /\ pc' = "draw"

\* the paths from the root down to the parent of path
Ancestors(path) ==
    { SubSeq(path, 1, n) : n \in Len(RootPath)..(Len(path) - 1) }

\* C6: after auto-expand, for every path of the status index that lies under
\* the root and exists on disk with readable ancestors, every ancestor
\* directory is expanded with loaded children and the path is in the
\* visible list.
C6_ChangedPathsAreShown ==
    [][ TreeWasBuilt =>
        \A path \in DOMAIN app'.git_status.map :
            ( /\ starts_with(path, RootPath)
              /\ path \in disk'
              /\ Ancestors(path) \cap unreadable' = {} )
            => /\ \A q \in Ancestors(path) :
                    /\ q \in PathsOf(app'.root)
                    /\ NodeByPath(app'.root, q).expanded
                    /\ IsSome(NodeByPath(app'.root, q).children)
               /\ path \in VisiblePaths(app'.visible) ]_vars

\* a resync has found a pending change three levels down
C6_Witness ==
    /\ pc = "timer"
    /\ event.type = "focus_gained"
    /\ \E path \in DOMAIN app.git_status.map :
          /\ Len(path) = Len(RootPath) + 3
          /\ path \in disk
          /\ path \in VisiblePaths(app.visible)

\* the rows of the visible list two levels below the root whose node is the
\* only child of its parent
OnlyGrandchildren ==
    { i \in 1..Len(app.visible) :
        /\ Len(app.visible[i].indices) = 2
        /\ Len(Unwrap(Unwrap(parent_at(app.root, app.visible[i].indices)).children)) = 1 }

\* C7 as stated: the prefix of a grandchild that is the only child of a
\* second-level node is a vertical bar continuing the second-level node,
\* terminated by a corner.
C7_GrandchildBarAndCorner ==
    pc = "poll" =>
        \A i \in OnlyGrandchildren :
            LET prefix == app.visible[i].prefix
            IN  /\ prefix[Len(prefix) - 1] = VBar
                /\ prefix[Len(prefix)] = Corner

\* C7 as amended: the prefix is a space for the root's column, then a
\* vertical bar if the second-level node has a later sibling and a space if
\* it is the last child of the root, then a corner.
C7_GrandchildPrefix ==
    pc = "poll" =>
        \A i \in OnlyGrandchildren :
            LET second == app.visible[i].indices[1]
                siblings == Len(Unwrap(app.root.children))
            IN  app.visible[i].prefix =
                    << Space,
                       IF second < siblings - 1 THEN VBar ELSE Space,
                       Corner >>

\* an only grandchild under a second-level node that has a later sibling
C7_Witness ==
    /\ pc = "poll"
    /\ \E i \in OnlyGrandchildren :
          app.visible[i].prefix = <<Space, VBar, Corner>>

\* C10: after refresh_visible the focus is a row of the visible list; j and
\* k move it by one row and leave it at the last and the first row; g puts
\* it on the first row and G on the last.
C10_FocusMoves ==
    [][ /\ pc' = "poll" => (0 <= app'.focus /\ app'.focus < Len(app'.visible))
        /\ BrowsingKeyStep("j", FALSE) =>
              app'.focus = IF app.focus = Len(app.visible) - 1
                           THEN app.focus ELSE app.focus + 1
        /\ BrowsingKeyStep("k", FALSE) =>
              app'.focus = IF app.focus = 0 THEN 0 ELSE app.focus - 1
        /\ BrowsingKeyStep("g", FALSE) => app'.focus = 0
        /\ BrowsingKeyStep("G", TRUE) => app'.focus = Len(app.visible) - 1
      ]_vars

-----------------------------------------------------------------------------
(* Properties of the viewer, checked under SpecViewer *)

\* a key event is being handled by the open viewer
ViewerKeyStep(key) ==
    /\ pc = "poll"
    /\ IsSome(app.viewer)
    /\ event'.type = "key"
    /\ event'.key = key

\* total_lines - viewport_height, not below 0
MaxScroll ==
    Max(0, Len(Unwrap(app.viewer).lines) - view_height_of(term_height))

\* C8: whenever the viewer is open its stored scroll offset lies in
\* 0 .. max(0, total_lines - viewport_height).
C8_ScrollIsClamped ==
    IsSome(app.viewer) =>
        /\ 0 <= Unwrap(app.viewer).scroll
        /\ Unwrap(app.viewer).scroll <= MaxScroll

\* C9: in the viewer a g pressed while pending_g is false sets pending_g and
\* leaves scroll as it is; a g pressed while pending_g is true sets scroll
\* to 0 and clears pending_g; any other key clears pending_g and makes no
\* jump to the top (scroll becomes 0 only from row 0 or 1, or when the text
\* fits the window).
C9_ChordIsTwoStateFlag ==
    [][ \A key \in ViewerKeys :
          ViewerKeyStep(key) =>
            LET v == Unwrap(app.viewer)
                w == Unwrap(app'.viewer)
            IN  IF key = Key("g", FALSE)
                THEN IF v.pending_g
                     THEN w.scroll = 0 /\ ~w.pending_g
                     ELSE w.scroll = v.scroll /\ w.pending_g
                ELSE IsSome(app'.viewer) =>
                        /\ ~w.pending_g
                        /\ w.scroll = 0 => (v.scroll <= 1 \/ MaxScroll = 0)
      ]_vars

\* the second g of a chord has been handled in a text longer than the window
C9_Witness ==
    /\ pc = "timer"
    /\ event.key = Key("g", FALSE)
    /\ IsSome(app.viewer)
    /\ Unwrap(app.viewer).scroll = 0
    /\ ~Unwrap(app.viewer).pending_g
    /\ MaxScroll >= 2

-----------------------------------------------------------------------------
(* Properties of the delete flow and of opening a file, checked under      *)
(* SpecMouse                                                               *)

\* C11: d on the root row leaves pending_delete as it was and never makes it
\* the root row; in every step of keys, clicks and resyncs the root stays
\* the root of the tree and on the disk, and no trash call names its path.
C11_RootIsNeverDeleted ==
    [][ /\ (BrowsingKeyStep("d", FALSE) /\ app.focus = 0) =>
              app'.pending_delete = app.pending_delete
        /\ app'.pending_delete # Some(0)
        /\ app'.root.path = RootPath
        /\ RootPath \in disk'
        /\ IsSome(trash_call') => Unwrap(trash_call').path # RootPath
      ]_vars

\* d has been refused on the root row
C11_Witness ==
    /\ pc = "timer"
    /\ event.key = Key("d", FALSE)
    /\ app.focus = 0
    /\ app.pending_delete = None
    /\ app.status = Msg("cannot delete root", <<>>)

\* C12: when y confirms an armed delete and the trash call fails, the status
\* line is the error, pending_delete is unset, and the tree and the disk are
\* as they were.
C12_FailedDeleteKeepsTree ==
    [][ ( /\ BrowsingKeyStep("y", FALSE)
          /\ IsSome(app.pending_delete)
          /\ IsSome(trash_call')
          /\ ~Unwrap(trash_call').ok )
        => /\ app'.status = Msg("delete failed: {}",
                                path_bytes(Unwrap(trash_call').path))
           /\ app'.pending_delete = None
           /\ app'.root = app.root
           /\ disk' = disk
      ]_vars

\* a trash call has failed on a node that carries a change
C12_Witness ==
    /\ pc = "timer"
    /\ IsSome(trash_call)
    /\ ~Unwrap(trash_call).ok
    /\ app.status.text = "delete failed: {}"
    /\ app.root.subtree_changes > 0

\* C13: when o, Enter or a double click runs the pretty-printer and it
\* fails, no viewer opens, the status line is the error, and the tree,
\* pending_delete and the focus open_with_bat was called with (the focused
\* row for a key, the clicked row for a double click) are unchanged; when it
\* succeeds the viewer opens on that file with scroll 0 and pending_g false.
C13_OpenFailsOrOpensAtTop ==
    [][ (pc = "poll" /\ IsSome(bat_call')) =>
          LET run == Unwrap(bat_call')
              row == IF event'.type = "mouse"
                     THEN app.scroll + event'.mouse.row - 1
                     ELSE app.focus
          IN  /\ event'.type = "key" => event'.key.code \in {"o", "Enter"}
              /\ event'.type = "mouse" => event'.mouse.kind = "Left"
              /\ app.visible[row + 1].path = run.path
              /\ IF run.ok
                 THEN /\ IsSome(app'.viewer)
                      /\ Unwrap(app'.viewer).title = run.path
                      /\ Unwrap(app'.viewer).scroll = 0
                      /\ ~Unwrap(app'.viewer).pending_g
                 ELSE /\ app'.viewer = None
                      /\ app'.status = Msg("bat failed: {}",
                                           path_bytes(run.path))
                      /\ app'.root = app.root
                      /\ app'.focus = row
                      /\ app'.pending_delete = app.pending_delete
      ]_vars

\* a double click has run the pretty-printer and it has failed
C13_Witness ==
    /\ pc = "timer"
    /\ event.type = "mouse"
    /\ IsSome(bat_call)
    /\ ~Unwrap(bat_call).ok
    /\ app.viewer = None
    /\ app.status.text = "bat failed: {}"

-----------------------------------------------------------------------------
(* Properties of resync, checked under Spec *)

\* a resync is being run: on a focus-gained event, or at the end of an
\* iteration when the interval has passed
ResyncStep ==
    \/ pc = "poll" /\ event'.type = "focus_gained"
    \/ pc = "timer" /\ elapsed >= RESYNC_SECS

\* C14: after a resync the focus is the index of the path that was focused
\* before it, when the new list holds that path; otherwise it is the index
\* it was, clamped to the last row of the new list.
C14_FocusFollowsPath ==
    [][ (ResyncStep /\ pc' # "exit") =>
          LET before == get(app.visible, app.focus)
              found == IF IsSome(before)
                       THEN { i \in 0..(Len(app'.visible) - 1) :
                                app'.visible[i + 1].path = Unwrap(before).path }
                       ELSE {}
          IN  IF found # {}
              THEN app'.focus \in found
              ELSE app'.focus = Min(app.focus, Len(app'.visible) - 1)
      ]_vars

\* a resync on a focus-gained event has moved the focus with its path to a
\* row below the window that was last drawn
C14_Witness ==
    /\ pc = "timer"
    /\ event.type = "focus_gained"
    /\ app.focus = 4
    /\ app.scroll < 3
    /\ app.visible[5].path = <<Name_r, Name_B>>

-----------------------------------------------------------------------------
(* Properties of the loop, checked under SpecLoop *)

\* the App a resync leaves, for one of the status indexes git may report
Resynced ==
    \E gs \in LoopStatuses : app' = resync(app, gs, disk, unreadable).app

\* C15: an iteration handles one event or one timeout and then reaches its
\* end; there, when 30 seconds have passed since the last resync, a resync
\* runs and the interval restarts, so that no render happens with the
\* interval passed; a focus-gained event runs a resync at once and restarts
\* the interval.
C15_ResyncIsNotStarved ==
    [][ /\ pc = "poll" => pc' \in {"timer", "exit"}
        /\ (pc = "timer" /\ elapsed >= RESYNC_SECS /\ pc' # "exit") =>
              (pc' = "draw" /\ Resynced /\ elapsed' = 0)
        /\ pc' = "draw" => elapsed' < RESYNC_SECS
        /\ (pc = "poll" /\ event'.type = "focus_gained" /\ pc' # "exit") =>
              (Resynced /\ elapsed' = 0)
      ]_vars

\* l has expanded directory a and the resync at the end of the same
\* iteration has built the tree anew, with a collapsed
C15_Witness ==
    /\ pc = "draw"
    /\ event.key = Key("l", FALSE)
    /\ app.focus = 1
    /\ elapsed = 0
    /\ ~Unwrap(app.root.children)[1].expanded

-----------------------------------------------------------------------------
(* Properties of resync on a changing file system, checked under SpecFs *)

\* C16: a resync, on a focus-gained event or at the end of the interval,
\* never leaves the loop of main, whatever happened to the root or to a
\* directory on the way to a changed path.
C16_ResyncFailureKeepsLoop ==
    [][ ResyncStep => pc' # "exit" ]_vars

-----------------------------------------------------------------------------
(* Properties of the ANSI adapter, checked under SpecAnsi *)

\* the pretty-printer has just run and printed a text
BatPrinted == pc = "timer" /\ IsSome(bat_call) /\ Unwrap(bat_call).ok

Printed == Unwrap(bat_call).stdout

ViewerLines == Unwrap(app.viewer).lines

BoldGreen == [DefaultStyle EXCEPT !.bold = TRUE, !.fg = Some(<<"Green">>)]

BoldGreenLine == Sgr(<<1, 32>>) \o TextOK \o Sgr(<<0>>) \o TextPlain

\* C17: the line ESC[1;32m OK ESC[0m followed by " plain" parses to two
\* spans: OK in bold with a green foreground and nothing else, then " plain"
\* in the default style.
C17_BoldGreenThenPlain ==
    (BatPrinted /\ Printed = BoldGreenLine) =>
        ViewerLines =
            << StyledLine(<< StyledSpan(TextOK, BoldGreen),
                             StyledSpan(TextPlain, DefaultStyle) >>) >>

\* that line has been printed and parsed
C17_Witness ==
    /\ BatPrinted
    /\ Printed = BoldGreenLine
    /\ Len(ViewerLines) = 1
    /\ Len(ViewerLines[1].spans) = 2

\* the colour the parameters 5;N or 2;R;G;B name
ColourOf(c) == IF c[1] = 5 THEN Indexed(c[2]) ELSE Rgb(c[2], c[3], c[4])

\* the style after 38 or 48 with a colour and the codes of `more`
ColouredStyle(k, c, more) ==
    [DefaultStyle EXCEPT
        !.fg = IF k = 38 THEN Some(ColourOf(c)) ELSE None,
        !.bg = IF k = 48 THEN Some(ColourOf(c)) ELSE None,
        !.bold = (more = <<1>>),
        !.underline = (more = <<4>>)]

\* C18: 38;2;R;G;B sets the foreground to the truecolor (R,G,B) and 38;5;N
\* to the indexed colour N, 48 does so for the background, and a code
\* behind the colour's parameters is applied as a code of its own.
C18_ExtendedColour ==
    BatPrinted =>
        \A k \in {38, 48}, c \in ColourParams, more \in {<<>>, <<1>>, <<4>>} :
            Printed = Sgr(<<k>> \o c \o more) \o TextX =>
                ViewerLines =
                    << StyledLine(<< StyledSpan(TextX,
                                                ColouredStyle(k, c, more)) >>) >>

\* ESC[38;2;10;20;30;1m X has been printed and parsed
C18_Witness ==
    /\ BatPrinted
    /\ Printed = Sgr(<<38, 2, 10, 20, 30, 1>>) \o TextX
    /\ Len(ViewerLines) = 1

\* the characters of a line
CharsOf(line) == { line[i] : i \in 1..Len(line) }

\* C19: every line of the text is parsed as if it stood alone, from the
\* default style; within a line without a reset (in these texts a reset is
\* the only sequence with a 0), bold, underline and a foreground stay from
\* the span they appear in to the end of the line.
C19_LinesAreIndependent ==
    BatPrinted =>
        LET ls == str_lines(Printed, <<>>)
        IN  /\ Len(ViewerLines) = Len(ls)
            /\ \A i \in 1..Len(ls) :
                  LET spans == ViewerLines[i].spans
                  IN  /\ spans = parse_ansi_spans(ls[i])
                      /\ 48 \notin CharsOf(ls[i]) =>
                            \A m \in 1..Len(spans), n \in 1..Len(spans) :
                                m < n =>
                                  /\ spans[m].style.bold => spans[n].style.bold
                                  /\ spans[m].style.underline =>
                                        spans[n].style.underline
                                  /\ IsSome(spans[m].style.fg) =>
                                        spans[n].style.fg = spans[m].style.fg

\* a first line has ended in bold green and the second line is plain
C19_Witness ==
    /\ BatPrinted
    /\ Printed = Sgr(<<1, 32>>) \o TextOK \o <<LF>> \o TextPlain
    /\ Len(ViewerLines) = 2
    /\ ViewerLines[2].spans = << StyledSpan(TextPlain, DefaultStyle) >>

-----------------------------------------------------------------------------
(* The double click, checked under SpecMouse *)

\* a mouse event is handled while the tree is shown
BrowsingMouseStep ==
    /\ pc = "poll" /\ pc' = "timer"
    /\ event'.type = "mouse"
    /\ has_focus
    /\ app.viewer = None

\* the entry under the pointer
ClickedIdx == app.scroll + event'.mouse.row - 1

\* the event is a left click on the row of a file
ClickOnFileRow ==
    /\ event'.mouse.kind = "Left"
    /\ event'.mouse.row >= 1
    /\ event'.mouse.row <= view_height_of(term_height)
    /\ ClickedIdx < Len(app.visible)
    /\ ~app.visible[ClickedIdx + 1].is_dir

\* C20: a click opens the viewer only as the second left click on the row
\* of a file, and every other click (a directory, outside the rows, the
\* wheel) resets the double-click timer, while a first click on a file
\* row starts it for that row.
C20_OtherClicksResetTimer ==
    [][BrowsingMouseStep =>
          /\ IsSome(app'.viewer) =>
                ClickOnFileRow /\ app.last_click = Some(ClickedIdx)
          /\ ~ClickOnFileRow => app'.last_click = None
          /\ (ClickOnFileRow /\ app.last_click # Some(ClickedIdx)) =>
                app'.last_click = Some(ClickedIdx)
      ]_vars

-----------------------------------------------------------------------------
(* Properties of the version-control adapter, checked under SpecGit *)

\* the tree has just been built with what the tools answered
GitAnswer == Unwrap(git_call)

\* both the top level and the porcelain status were answered
StatusParsed ==
    /\ IsSome(git_call)
    /\ IsSome(GitAnswer.toplevel)
    /\ IsSome(GitAnswer.porcelain)

\* the records the porcelain output of the answer stands for
ParsedRecords ==
    { records \in RecordLists(git_root_of(GitAnswer.toplevel)) :
        GitAnswer.porcelain =
            Some(porcelain_z(git_root_of(GitAnswer.toplevel), records)) }

\* C21: a rename record under the explored root is entered in the map
\* under the path the file was renamed to, with the record's code, and
\* not under the path it had before.
C21_RenameDestinationIsKey ==
    StatusParsed =>
        \A records \in ParsedRecords :
            \A i \in 1..Len(records) :
                (IsSome(records[i].orig)
                 /\ starts_with(records[i].path, RootPath)) =>
                    /\ records[i].path \in DOMAIN app.git_status.map
                    /\ app.git_status.map[records[i].path] = records[i].code
                    /\ Unwrap(records[i].orig)
                          \notin DOMAIN app.git_status.map

\* the tallies of a list of records
RECURSIVE TallyOf(_)
TallyOf(records) ==
    IF records = <<>> THEN ZeroCounts
    ELSE LET rest == TallyOf(Tail(records))
             code == Head(records).code
         IN  IF code = Untracked
             THEN [rest EXCEPT !.untracked = @ + 1]
             ELSE [rest EXCEPT
                     !.staged = IF code[1] # 32 THEN @ + 1 ELSE @,
                     !.unstaged = IF code[2] # 32 THEN @ + 1 ELSE @]

\* C22 as stated: whichever tool fails, the index is empty and all zero
C22_AnyFailureGivesEmptyIndex ==
    (IsSome(git_call)
     /\ (GitAnswer.toplevel = None \/ GitAnswer.porcelain = None
         \/ GitAnswer.sb = None)) =>
        /\ app.git_status = EmptyGitStatus
        /\ pc # "exit"

\* C22: when the top level is not found or the porcelain status query
\* fails, the index is empty and all zero; when only the branch query
\* fails, ahead and behind are zero and the map and the tallies are those
\* of the porcelain output; the loop goes on in each case.
C22_FailureGivesEmptyOrPartialIndex ==
    IsSome(git_call) =>
        /\ (GitAnswer.toplevel = None \/ GitAnswer.porcelain = None) =>
              app.git_status = EmptyGitStatus
        /\ (StatusParsed /\ GitAnswer.sb = None) =>
              /\ app.git_status.ahead = 0
              /\ app.git_status.behind = 0
              /\ \A records \in ParsedRecords :
                    /\ app.git_status.counts = TallyOf(records)
                    /\ (records # <<>>) =>
                          app.git_status # EmptyGitStatus
        /\ pc # "exit"

\* only the branch query has failed: the records are in the index and
\* tallied, ahead and behind are zero, and the tree is built
C22_Witness ==
    /\ StatusParsed
    /\ GitAnswer.sb = None
    /\ Unwrap(GitAnswer.porcelain) # <<>>
    /\ app.git_status.counts.staged = 2
    /\ app.git_status.ahead = 0
    /\ pc = "draw"

\* the root-level ignore file of the answer's repository
RootIgnoreFile == git_root_of(GitAnswer.toplevel) \o <<DotGitignore>>

\* C23: when the repository's top level is not found, the matcher does not
\* build or the root-level ignore file is missing, no node of the tree that
\* is built is flagged as ignored.
C23_OnlyRootIgnoreFileDecides ==
    (IsSome(git_call)
     /\ (GitAnswer.toplevel = None \/ ~GitAnswer.compiles
         \/ ~is_file(RootIgnoreFile, disk))) =>
        \A n \in Nodes(app.root) : ~n.ignored

\* C30: the map holds only paths under the explored root, a record under
\* the root that is no rename is in it with its code, and the tallies count
\* every record: ?? as untracked only, any other one as staged when its
\* first letter is not blank and as unstaged when its second is not.
C30_MapInsideRootTalliesAll ==
    StatusParsed =>
        /\ \A path \in DOMAIN app.git_status.map : starts_with(path, RootPath)
        /\ \A records \in ParsedRecords :
              /\ app.git_status.counts = TallyOf(records)
              /\ \A i \in 1..Len(records) :
                    (records[i].orig = None
                     /\ starts_with(records[i].path, RootPath)) =>
                        /\ records[i].path \in DOMAIN app.git_status.map
                        /\ app.git_status.map[records[i].path]
                              = records[i].code

\* an untracked file under the root and a file outside of it that is
\* changed in the index and in the work tree
C30_Witness ==
    /\ StatusParsed
    /\ GitAnswer.toplevel = Some(<<>>)
    /\ DOMAIN app.git_status.map = { RootPath \o <<Name_B>> }
    /\ app.git_status.map[RootPath \o <<Name_B>>] = Untracked
    /\ app.git_status.counts =
          [staged |-> 1, unstaged |-> 1, untracked |-> 1]

-----------------------------------------------------------------------------
(* The prefix of every row, checked under Spec *)

\* the node an index path leads to is the last child of its parent; the
\* root has no siblings
IsLastChild(indices) ==
    \/ indices = <<>>
    \/ indices[Len(indices)] + 1 =
          Len(Unwrap(Unwrap(parent_at(app.root, indices)).children))

\* C26: the root's prefix is empty; the prefix of any other row has one
\* column for each ancestor, the root included, a vertical bar if the
\* ancestor has later siblings and a space otherwise, and then a corner if
\* the node is the last child of its parent and a tee otherwise.
C26_PrefixColumns ==
    pc = "poll" =>
        \A i \in 1..Len(app.visible) :
            LET indices == app.visible[i].indices
                prefix == app.visible[i].prefix
                depth == Len(indices)
            IN  IF depth = 0 THEN prefix = <<>>
                ELSE /\ Len(prefix) = depth + 1
                     /\ \A j \in 1..depth :
                           prefix[j] =
                               IF IsLastChild(SubSeq(indices, 1, j - 1))
                               THEN Space ELSE VBar
                     /\ prefix[depth + 1] =
                           IF IsLastChild(indices) THEN Corner ELSE Tee

\* three levels below the root are shown: a row under a directory that has
\* a later sibling, and a row that is not the last child of its parent
C26_Witness ==
    /\ pc = "poll"
    /\ \E i \in 1..Len(app.visible) :
          app.visible[i].prefix = <<Space, VBar, Space, Corner>>
    /\ \E i \in 1..Len(app.visible) :
          app.visible[i].prefix = <<Space, Tee>>

\* the literal runs and the parameter lists of the pieces of a text
Literals == { TextOK, TextPlain }

SgrParams == { <<1, 32>>, <<0>>, <<4>> }

\* the style the code table gives after one of these sequences
StyleAfter(params, style) ==
    CASE params = <<1, 32>> ->
            [style EXCEPT !.bold = TRUE, !.fg = Some(<<"Green">>)]
      [] params = <<0>> -> DefaultStyle
      [] params = <<4>> -> [style EXCEPT !.underline = TRUE]

\* C27: a run of literal text met before an SGR sequence is a span in the
\* style in effect before the sequence, and the text after the sequence is
\* a span in the style the sequence's codes give, from the default style and
\* from the style an earlier sequence left.
C27_FlushBeforeApply ==
    BatPrinted =>
        \A lit1 \in Literals, lit2 \in Literals, p \in SgrParams :
            /\ Printed = lit1 \o Sgr(p) \o lit2 =>
                ViewerLines =
                    << StyledLine(
                        << StyledSpan(lit1, DefaultStyle),
                           StyledSpan(lit2, StyleAfter(p, DefaultStyle)) >>) >>
            /\ \A p0 \in SgrParams :
                Printed = Sgr(p0) \o lit1 \o Sgr(p) \o lit2 =>
                    ViewerLines =
                        << StyledLine(
                            << StyledSpan(lit1, StyleAfter(p0, DefaultStyle)),
                               StyledSpan(lit2,
                                   StyleAfter(p,
                                       StyleAfter(p0, DefaultStyle))) >>) >>

\* bold green text, an underline sequence, then more text: two spans, the
\* first one not underlined
C27_Witness ==
    /\ BatPrinted
    /\ Printed = Sgr(<<1, 32>>) \o TextOK \o Sgr(<<4>>) \o TextPlain
    /\ Len(ViewerLines) = 1
    /\ Len(ViewerLines[1].spans) = 2
    /\ ~ViewerLines[1].spans[1].style.underline
    /\ ViewerLines[1].spans[2].style.underline
    /\ ViewerLines[1].spans[2].style.bold

\* the colours of 30-37 and of 90-97, in the order of the codes
NamedColours ==
    << "Black", "Red", "Green", "Yellow", "Blue", "Magenta", "Cyan", "Gray" >>

BrightColours ==
    << "DarkGray", "LightRed", "LightGreen", "LightYellow", "LightBlue",
       "LightMagenta", "LightCyan", "White" >>

NamedColour(code) ==
    IF code \in 30..37 THEN <<NamedColours[code - 29]>>
    ELSE <<BrightColours[code - 89]>>

\* the code table, attribute by attribute
TableStyle(code, style) ==
    [ bold |-> IF code = 1 THEN TRUE
               ELSE IF code \in {0, 22} THEN FALSE ELSE style.bold,
      dim |-> IF code = 2 THEN TRUE
              ELSE IF code \in {0, 22} THEN FALSE ELSE style.dim,
      italic |-> IF code = 3 THEN TRUE
                 ELSE IF code \in {0, 23} THEN FALSE ELSE style.italic,
      underline |-> IF code = 4 THEN TRUE
                    ELSE IF code \in {0, 24} THEN FALSE ELSE style.underline,
      fg |-> IF code \in (30..37) \cup (90..97) THEN Some(NamedColour(code))
             ELSE IF code \in {0, 39} THEN None ELSE style.fg,
      bg |-> IF code \in (40..47) \cup (100..107)
             THEN Some(NamedColour(code - 10))
             ELSE IF code \in {0, 49} THEN None ELSE style.bg ]

\* C28: a sequence of two codes leaves the style the code table gives for
\* the first code and then for the second: 0 resets, 1/2/3/4 set bold, dim,
\* italic, underline, 22 clears bold and dim, 23 italic, 24 underline, 30-37
\* and 90-97 set the named foreground, 40-47 and 100-107 the background of
\* the code minus 10, 39 and 49 clear them, every other attribute is kept,
\* and any other code changes nothing.
C28_CodeTable ==
    BatPrinted =>
        \A c1 \in SupportedCodes \cup OtherCodes,
           c2 \in SupportedCodes \cup OtherCodes :
            Printed = Sgr(<<c1, c2>>) \o TextX =>
                ViewerLines =
                    << StyledLine(
                        << StyledSpan(TextX,
                               TableStyle(c2,
                                   TableStyle(c1, DefaultStyle))) >>) >>

\* dim, then 22: the text is neither bold nor dim
C28_Witness ==
    /\ BatPrinted
    /\ Printed = Sgr(<<2, 22>>) \o TextX
    /\ Len(ViewerLines) = 1
    /\ ViewerLines[1].spans[1].style = DefaultStyle

-----------------------------------------------------------------------------
(* Properties of load_children on the nodes of the tree, checked under Spec *)

\* a directory of the tree that can be listed
Listable(n) == n.is_dir /\ n.path \in disk /\ n.path \notin unreadable

Listed(n) ==
    load_children(n, app.gitignore, app.git_status, disk, unreadable)

\* the file name in lower case, as the order of the children compares it
LowerName(n) == to_ascii_lowercase(file_name(n.path))

\* C29: on every directory of the tree, load_children called on its own
\* result gives that result again; the children are the entries of the
\* directory, once each, in the order of their names with case ignored, and
\* the count of the directory is the sum of the counts of these children.
C29_LoadChildrenIsIdempotent ==
    \A n \in Nodes(app.root) :
        Listable(n) =>
            LET once == Listed(n)
                kids == Unwrap(once.node.children)
            IN  /\ once.ok
                /\ Listed(once.node) = once
                /\ Len(kids) =
                       Cardinality({ p \in disk \ {RootPath} :
                                        parent(p) = n.path })
                /\ { kids[i].path : i \in 1..Len(kids) } =
                       { p \in disk \ {RootPath} : parent(p) = n.path }
                /\ \A i \in 1..Len(kids), j \in 1..Len(kids) :
                       i < j => ~str_less(LowerName(kids[j]),
                                          LowerName(kids[i]))
                /\ once.node.subtree_changes = sum_changes(kids)

\* the root holds a before B, a is expanded with its children loaded, and
\* listing the root again replaces that list
C29_Witness ==
    /\ Listable(app.root)
    /\ IsSome(app.root.children)
    /\ Len(Unwrap(app.root.children)) = 2
    /\ Unwrap(app.root.children)[1].path = RootPath \o <<Name_a>>
    /\ Unwrap(app.root.children)[2].path = RootPath \o <<Name_B>>
    /\ IsSome(Unwrap(app.root.children)[1].children)
    /\ Unwrap(Listed(app.root).node.children)[1].children = None
    /\ Len(Unwrap(Listed(app.root).node.children)) = 2

-----------------------------------------------------------------------------
(* Properties of the index paths of the visible list, checked under Spec *)

\* every entry's index path leads to the node of the entry's path
VisibleResolves ==
    \A i \in 1..Len(app.visible) :
        LET node == node_at(app.root, app.visible[i].indices)
        IN  IsSome(node) /\ Unwrap(node).path = app.visible[i].path

\* a key or mouse handler of Browsing, or resync, is about to read the list
ReadsVisible ==
    \/ ResyncStep
    \/ pc = "poll" /\ app.viewer = None /\ event'.type \in {"key", "mouse"}

\* C25: whenever an input handler or resync reads the visible list, every
\* entry's index path resolves in the tree to a node whose path is the
\* entry's path.
C25_VisibleResolvesWhenRead ==
    [][ ReadsVisible => VisibleResolves ]_vars

-----------------------------------------------------------------------------
(* Properties of the tree rows, checked under SpecRender *)

\* the tree has just been drawn
TreeDrawn == pc = "poll" /\ IsSome(tree_widget)

DrawnLines == Unwrap(tree_widget)

\* the entry drawn in a row of the tree area (rows count from 1)
DrawnEntry(row) == app.visible[app.scroll + row]

\* a span without colours: nothing, or the reset to the terminal's default
Colourless(style) ==
    style.fg \in {None, Some(<<"Reset">>)} /\ style.bg = None

\* C24: with NO_COLOR in the environment no span of a drawn row has a
\* foreground or a background colour, whether the row is focused or not; the
\* row still begins with the prefix, every span of the focused row is in
\* reverse video, and the name of an ignored entry that is not focused is
\* dim.
C24_NoColorMeansNoColour ==
    (TreeDrawn /\ no_color) =>
        \A row \in 1..Len(DrawnLines) :
            LET line == DrawnLines[row]
                entry == DrawnEntry(row)
                focused == app.focus = app.scroll + row - 1
            IN  /\ \A k \in 1..Len(line) : Colourless(line[k].style)
                /\ entry.prefix # <<>>
                      => line[1].content = entry.prefix \o <<Space>>
                /\ focused
                      => \A k \in 1..Len(line) :
                            "REVERSED" \in line[k].style.add_modifier
                /\ (entry.ignored /\ ~focused)
                      => \E k \in 1..Len(line) :
                            /\ line[k].content = entry.name
                            /\ "DIM" \in line[k].style.add_modifier

\* the widest row the row properties are computed for
MaxWidth == 50

\* the characters of a row, its spans put together
LineText(line) == concat_spans([k \in 1..Len(line) |-> line[k].content])

\* prefix, icon and name as they are written, each of the first two with the
\* space that follows it
HeadText(entry) ==
    ( IF entry.prefix # <<>> THEN entry.prefix \o <<Space>> ELSE <<>> )
    \o entry.icon \o <<Space>> \o entry.name

\* the texts of the right-aligned cluster: status code, modified time,
\* count of changes below a directory, repository metrics
ClusterTexts(entry) ==
    ( IF \E k \in 1..Len(entry.status) : entry.status[k] # Space
      THEN << entry.status >> ELSE <<>> )
    \o ( IF entry.modified # <<>> THEN << entry.modified >> ELSE <<>> )
    \o ( IF entry.is_dir /\ entry.subtree_changes > 0
         THEN << <<916>> \o to_digits(entry.subtree_changes) >> ELSE <<>> )
    \o ( IF entry.metrics # <<>> THEN << entry.metrics >> ELSE <<>> )

\* the cluster as one text, two spaces between its parts
RECURSIVE ClusterText(_)
ClusterText(texts) ==
    IF texts = <<>> THEN <<>>
    ELSE IF Len(texts) = 1 THEN Head(texts)
    ELSE Head(texts) \o <<Space, Space>> \o ClusterText(Tail(texts))

\* the row is the head alone, or the head, one space at least, and the
\* cluster, and then it is exactly as wide as the area; the second exactly
\* when there is a cluster and head, one space and cluster stay below width
RowFits(line, entry, width) ==
    LET head == HeadText(entry)
        cluster == ClusterText(ClusterTexts(entry))
        text == LineText(line)
        drawn == text # head
        room == cluster # <<>> /\ Len(head) + 1 + Len(cluster) < width
    IN  /\ drawn <=> room
        /\ ~drawn => text = head
        /\ drawn =>
              /\ Len(text) = width
              /\ \E pad \in 1..width :
                    text = head \o spaces(pad) \o cluster

\* a drawn entry, and the same entry without a modification time
EntryVariants(entry) == { entry, [entry EXCEPT !.modified = <<>>] }

\* C31: in every drawn row, and in every row build_tree_line makes of a
\* drawn entry (with or without its modification time) at any width up to
\* MaxWidth, the right-aligned cluster is there exactly when it is not empty
\* and head length + 1 + cluster length < width, counted in characters;
\* when it is there the row has exactly width characters and at least one
\* space stands between the name and the cluster.
C31_ClusterFitsOrIsOmitted ==
    TreeDrawn =>
        \A row \in 1..Len(DrawnLines) :
            /\ RowFits(DrawnLines[row], DrawnEntry(row), term_width)
            /\ \A e \in EntryVariants(DrawnEntry(row)), w \in 0..MaxWidth :
                  RowFits(build_tree_line(e, app.focus = app.scroll + row - 1,
                                          should_color, w),
                          e, w)

\* a frame with a row that has its cluster and a row too long for it, and a
\* width that leaves exactly one column too few for some row's cluster
C31_Witness ==
    /\ TreeDrawn
    /\ \E row \in 1..Len(DrawnLines) :
          LineText(DrawnLines[row]) # HeadText(DrawnEntry(row))
    /\ \E row \in 1..Len(DrawnLines) :
          LineText(DrawnLines[row]) = HeadText(DrawnEntry(row))
    /\ \E row \in 1..Len(DrawnLines), w \in 0..MaxWidth :
          w = Len(HeadText(DrawnEntry(row))) + 1
                + Len(ClusterText(ClusterTexts(DrawnEntry(row))))

-----------------------------------------------------------------------------
(* Properties of the layout lock, checked under SpecLock *)

\* the process is between a successful acquire_layout_lock and the release
\* of its lock guard
HoldsLock(p) == toggles[p].pc = "locked"

\* C32: no two processes hold the layout lock of the same session at the
\* same time, whatever the interleaving of their steps and however the 5
\* second rule for stale lock files comes into play.
C32_LayoutLockExcludes ==
    \A p, q \in Procs :
        (p # q /\ HoldsLock(p) /\ HoldsLock(q))
            => toggles[p].session # toggles[q].session

-----------------------------------------------------------------------------
(* Properties of the delete flow between `d` and `y`, checked under Spec *)

\* the status line still shows the confirmation prompt of the last `d`
PromptShown == app.status.text = "Delete {}? y to confirm, Esc to cancel"

\* `y` is handled in Browsing and hands a path to trash::delete
ConfirmTrashes == BrowsingKeyStep("y", FALSE) /\ IsSome(trash_call')

\* C33: whatever happened between `d` and `y`, the node that `y` hands to
\* trash::delete is the node the confirmation prompt names, which is the
\* node that was focused when `d` was pressed.
C33_ConfirmDeletesThePromptedNode ==
    [][ (ConfirmTrashes /\ PromptShown)
            => /\ IsSome(delete_target(app))
               /\ Unwrap(delete_target(app)).name = app.status.arg
               /\ Unwrap(trash_call').path = Unwrap(delete_target(app)).path
      ]_vars

-----------------------------------------------------------------------------
(* Properties of the two states, checked under SpecModal *)

\* a key event is handled in this step
KeyStep == pc = "poll" /\ event'.type = "key"

\* C34: while the viewer is open a key changes neither the tree, nor the
\* focus, nor pending_delete, nothing is handed to trash::delete or to the
\* pretty-printer and the disk stays as it is; `q` and Esc close the viewer
\* and the loop goes on in Browsing, every other key leaves the viewer
\* open; a key ends the loop exactly when it is `q` pressed in Browsing.
C34_ViewingIsModal ==
    [][ KeyStep =>
          /\ IsSome(app.viewer) =>
                /\ app'.root = app.root
                /\ app'.visible = app.visible
                /\ app'.focus = app.focus
                /\ app'.pending_delete = app.pending_delete
                /\ trash_call' = None
                /\ bat_call' = None
                /\ disk' = disk
                /\ (app'.viewer = None) <=> (event'.key.code \in {"q", "Esc"})
          /\ (pc' = "exit")
                <=> (app.viewer = None /\ event'.key = Key("q", FALSE))
      ]_vars

\* `y` was pressed in the viewer while a delete was armed and the viewer is
\* still open, the delete still armed
C34_Witness ==
    /\ pc = "timer"
    /\ event.type = "key"
    /\ event.key = Key("y", FALSE)
    /\ IsSome(app.viewer)
    /\ IsSome(app.pending_delete)

-----------------------------------------------------------------------------
(* Properties of collapse and expand, checked under SpecFs, where the disk *)
(* changes behind the loaded tree *)

\* the focused row is a directory that is expanded and has its children
\* loaded, in Browsing with the rows fresh from the last draw
FocusedDirIsOpen ==
    /\ pc = "poll"
    /\ app.viewer = None
    /\ IsSome(get(app.visible, app.focus))
    /\ LET node == node_at(app.root,
                           Unwrap(get(app.visible, app.focus)).indices)
       IN  /\ IsSome(node)
           /\ Unwrap(node).is_dir
           /\ Unwrap(node).expanded
           /\ IsSome(Unwrap(node).children)

\* `h` and then `l` on the focused row, the rows refreshed after each as
\* the loop does before it draws
CollapsedThenExpanded ==
    refresh_visible(
        expand_node(refresh_visible(collapse_node(app)), disk, unreadable))

\* Enter twice on the focused directory
ToggledTwice ==
    refresh_visible(
        toggle_expand(
            refresh_visible(toggle_expand(app, disk, unreadable)),
            disk, unreadable))

\* C35: collapsing the focused directory, whose children are loaded, and
\* expanding it again gives back the tree and the rows there were before,
\* whatever has happened on the disk since the children were loaded: the
\* collapse hides the rows below the directory and nothing else, it keeps
\* the children and their expanded flags, and the expand does not read the
\* directory again.
C35_CollapseThenExpandRestores ==
    FocusedDirIsOpen =>
        /\ CollapsedThenExpanded.root = app.root
        /\ CollapsedThenExpanded.visible = app.visible
        /\ ToggledTwice.root = app.root
        /\ ToggledTwice.visible = app.visible
        /\ LET shut == refresh_visible(collapse_node(app))
           IN  /\ Len(shut.visible) < Len(app.visible)
                    \/ Unwrap(Unwrap(node_at(app.root,
                          app.visible[app.focus + 1].indices)).children) = <<>>
               /\ SubSeq(shut.visible, 1, app.focus + 1)
                    = SubSeq(app.visible, 1, app.focus + 1)

\* the focused directory is open with an expanded directory below it, and
\* the disk no longer holds what is loaded below it
C35_Witness ==
    /\ FocusedDirIsOpen
    /\ app.focus > 0
    /\ \E k \in 1..Len(app.visible) :
          /\ k > app.focus + 1
          /\ starts_with(app.visible[k].path,
                         app.visible[app.focus + 1].path)
          /\ app.visible[k].is_dir
          /\ Unwrap(node_at(app.root, app.visible[k].indices)).expanded
          /\ app.visible[k].path \notin disk

-----------------------------------------------------------------------------
(* Properties of the scroll offset of the tree, checked under SpecViewer,  *)
(* where the terminal is resized between draws *)

\* the tree is rendered in this step, in an area of at least one row
TreeRenderStep ==
    /\ pc = "draw"
    /\ pc' = "poll"
    /\ app.viewer = None
    /\ view_height_of(term_height) > 0

\* the focus lies in the rows scroll .. scroll + view_height - 1
InWindow(focus, scroll, view_height) ==
    scroll <= focus /\ focus < scroll + view_height

\* C36: after every render of the tree in an area of at least one row the
\* focused row is one of the rows drawn, scroll <= focus < scroll +
\* view_height; the render moves the scroll offset only when the focus is
\* outside the window the old offset gives, and no other step of the loop
\* moves it.
C36_FocusStaysInWindow ==
    [][ /\ TreeRenderStep =>
              /\ InWindow(app'.focus, app'.scroll,
                          view_height_of(term_height))
              /\ app'.scroll # app.scroll
                    => ~InWindow(app'.focus, app.scroll,
                                 view_height_of(term_height))
        /\ app'.scroll # app.scroll => TreeRenderStep
      ]_vars

\* the tree was drawn scrolled past its first row, with the focus on the
\* last row of a window of two rows or more
C36_Witness ==
    /\ pc = "poll"
    /\ app.viewer = None
    /\ app.scroll > 0
    /\ app.focus = app.scroll + view_height_of(term_height) - 1
    /\ view_height_of(term_height) > 1

-----------------------------------------------------------------------------
(* Properties of the spans and the text they cover, checked under SpecAnsi *)

\* every ESC of the line begins a sequence ESC [ ... m
RECURSIVE WellFormed(_)
WellFormed(chars) ==
    IF chars = <<>> THEN TRUE
    ELSE IF Head(chars) # ESC THEN WellFormed(Tail(chars))
    ELSE /\ Len(chars) >= 2
         /\ chars[2] = LBracket
         /\ \E k \in 3..Len(chars) :
               /\ chars[k] = LetterM
               /\ \A j \in 3..(k - 1) : chars[j] \notin {LetterM, ESC}
               /\ WellFormed(SubSeq(chars, k + 1, Len(chars)))

\* a well-formed line without its escape sequences
RECURSIVE StripSgr(_)
StripSgr(chars) ==
    IF chars = <<>> THEN <<>>
    ELSE IF Head(chars) # ESC THEN <<Head(chars)>> \o StripSgr(Tail(chars))
    ELSE LET k == CHOOSE k \in 3..Len(chars) :
                    /\ chars[k] = LetterM
                    /\ \A j \in 3..(k - 1) : chars[j] # LetterM
         IN  StripSgr(SubSeq(chars, k + 1, Len(chars)))

\* the texts of the spans of a line, one after the other
SpanTexts(spans) == concat([k \in 1..Len(spans) |-> spans[k].text])

\* the lines of the text that was printed
PrintedLines == str_lines(Printed, <<>>)

\* C37: for every printed line in which each ESC begins a sequence
\* ESC [ parameters m, the texts of the spans of the parsed line, in order,
\* make up the line without those sequences, and no span has an empty text.
C37_SpansCoverTheLine ==
    BatPrinted =>
        /\ Len(ViewerLines) = Len(PrintedLines)
        /\ \A i \in 1..Len(ViewerLines) :
              WellFormed(PrintedLines[i]) =>
                  /\ SpanTexts(ViewerLines[i].spans)
                        = StripSgr(PrintedLines[i])
                  /\ \A k \in 1..Len(ViewerLines[i].spans) :
                        ViewerLines[i].spans[k].text # <<>>

\* a line that begins with two sequences in a row, then text, a sequence
\* and text again: two spans and none for the gap between the sequences
C37_Witness ==
    /\ BatPrinted
    /\ Printed = Sgr(<<1, 32>>) \o Sgr(<<4>>) \o TextOK \o Sgr(<<0>>)
    /\ WellFormed(Printed)
    /\ Len(ViewerLines) = 1
    /\ Len(ViewerLines[1].spans) = 1
    /\ StripSgr(Printed) = TextOK

-----------------------------------------------------------------------------
(* Properties of the components of extended colours, checked under        *)
(* SpecAnsi *)

\* a 16-bit value cut to its low 8 bits: itself up to 255
Low8(n) == IF n \in 0..255 THEN n ELSE n - 256 * (n \div 256)

\* the one span X with the colour as foreground (38) or background (48)
OneColouredX(k, colour) ==
    << StyledLine(<< StyledSpan(TextX,
            [DefaultStyle EXCEPT
                !.fg = IF k = 38 THEN Some(colour) ELSE None,
                !.bg = IF k = 48 THEN Some(colour) ELSE None]) >>) >>

\* C38: the N of k;5;N and the R, G, B of k;2;R;G;B are stored as they are
\* up to 255 and modulo 256 above, up to 65535; a parameter that is no
\* 16-bit number (65536, x, -1, an empty one) standing between the selector
\* and the components is left out before the codes are read, so the
\* components behind it are taken as if it were not there.
C38_ComponentsAreTruncated ==
    BatPrinted =>
        \A k \in {38, 48}, bad \in BadRuns :
            /\ \A n \in WideValues :
                  Printed = RawSgr(<<to_digits(k), to_digits(5)>> \o bad
                                   \o <<to_digits(n)>>) \o TextX
                    => ViewerLines = OneColouredX(k, <<"Indexed", Low8(n)>>)
            /\ \A t \in WideTriples :
                  Printed = RawSgr(<<to_digits(k), to_digits(2)>> \o bad
                                   \o <<to_digits(t[1]), to_digits(t[2]),
                                        to_digits(t[3])>>) \o TextX
                    => ViewerLines =
                          OneColouredX(k, <<"Rgb", Low8(t[1]), Low8(t[2]),
                                            Low8(t[3])>>)

\* ESC[38;5;65536;300m X has been printed and parsed: the foreground is the
\* indexed colour 44
C38_Witness ==
    /\ BatPrinted
    /\ Printed = RawSgr(<<to_digits(38), to_digits(5), to_digits(65536),
                          to_digits(300)>>) \o TextX
    /\ Len(ViewerLines) = 1
    /\ ViewerLines[1].spans[1].style.fg = Some(<<"Indexed", 44>>)

-----------------------------------------------------------------------------
(* Properties of 38 and 48 without a colour behind them, checked under     *)
(* SpecAnsi *)

\* the style a red foreground leaves, or the default style
StyleBefore(before) ==
    IF before = <<>> THEN DefaultStyle
    ELSE [DefaultStyle EXCEPT !.fg = Some(<<"Red">>)]

\* C39: a sequence of 38 or 48 followed by a selector that is neither 5 nor
\* 2, or by fewer parameters than the selector needs, leaves the style as
\* it was: X is drawn in the style in effect before the sequence, with no
\* colour, bold, dim, italic or underline set by the parameters left over.
C39_MalformedColourChangesNothing ==
    BatPrinted =>
        \A before \in { <<>>, Sgr(<<31>>) }, k \in {38, 48},
           rest \in MalformedParams :
            Printed = before \o Sgr(<<k>> \o rest) \o TextX =>
                ViewerLines =
                    << StyledLine(<< StyledSpan(TextX,
                                                StyleBefore(before)) >>) >>

-----------------------------------------------------------------------------
(* Properties of the tree a resync builds, checked under SpecResync *)

\* the directory lies on the way to an entry of the status index
LeadsToChange(path, gs) ==
    \E key \in DOMAIN gs.map : key # path /\ starts_with(key, path)

\* the directories of the tree are expanded exactly on the ways to the
\* entries of the status index, the root always; the others have no
\* children loaded
ExpandedAsChanged(a) ==
    \A n \in Nodes(a.root) :
        n.is_dir =>
            /\ n.expanded
                  <=> (n.path = RootPath \/ LeadsToChange(n.path, a.git_status))
            /\ n.expanded => IsSome(n.children)
            /\ ~n.expanded => n.children = None

====
